---- MODULE Spec2Model ----
(***************************************************************************)
(* Model of the Annotation Store (AnnotationDBManager) of the              *)
(* processing_pipeline repository: the annotations table, the history      *)
(* table, and the store's operations insert, update, read, query, delete,  *)
(* delete_by_filters, save_to_history and upsert, each cut at the          *)
(* boundaries of its `with self.get_connection()` blocks.                  *)
(* Further sections model the store's constructor and its configuration    *)
(* file, the span aligner DocumentProcessor.find_target_bboxes, and the    *)
(* functions of coordinate_converter.                                      *)
(***************************************************************************)
EXTENDS Integers, Sequences, FiniteSets, TLC

(* ------------------------------ bounds -------------------------------- *)

\* Number of store operations a run may call in total.
MaxCalls == 2

\* The callers (threads or processes) that may use the store.
Procs == {1, 2}

\* Values of the lookup-key columns and of the payload used as inputs.
ObjectIds == {1, 2}
FieldIds == {1}
SetIds == {1}
LookupInfo1s == {"doc"}
LookupInfo2s == {"0"}
AnnotDatas == {"pageA", "pageB"}

\* Filter values of delete_by_filters (field_id 2 matches no row).
FilterFieldIds == {1, 2}

\* New values update is called with; every subset of its six optional
\* arguments is supplied with these.
UpdateAnnotDatas == {"pageB"}
UpdateObjectIds == {2}

(* --------------------------- optional values -------------------------- *)

\* Python's None and a present value, for Optional[...] parameters.
None == <<>>
Some(v) == <<v>>
Opt(S) == {None} \cup {Some(v) : v \in S}

(* ------------------------------ state --------------------------------- *)

VARIABLES
    rows,                \* the annotations table: a set of committed rows
    identity,            \* last IDENTITY value handed out by the annotations table
    history,             \* the history table, in HISTID order
    clock,               \* datetime.now(timezone.utc), in ticks
    history_table_name,  \* self.history_table_name: None or Some(name)
    pc,                  \* per caller: where it stands in the store's code
    frame,               \* per caller: arguments and locals of the running call
    conns,               \* per caller: connections opened and not yet closed
    ret,                 \* per caller: outcome of its last finished call
    pre,                 \* per caller: tables as they were when its call began
    calls,               \* calls made so far
    config_file,         \* the YAML configuration file the constructor reads
    manager,             \* the AnnotationDBManager object: its construction and config
    call_args,           \* the call of a module-level or aligner function: its arguments
    returned             \* what that call returned or raised; None before it ran

\* The datastore and the callers of the store's operations.
storeVars == <<rows, identity, history, clock, history_table_name,
               pc, frame, conns, ret, pre, calls>>

vars == <<rows, identity, history, clock, history_table_name,
          pc, frame, conns, ret, pre, calls,
          config_file, manager, call_args, returned>>

(* --------------------------- pure helpers ----------------------------- *)

\* annotation_data_to_json: the Thrift JSON text of an AnnotationData.
annotation_data_to_json(annot_data) == <<"TJSON", annot_data>>

\* The five lookup-key columns of a row, of a history row or of a call.
KeyOf(r) == <<r.object_id, r.field_id, r.set_id, r.lookup_info1, r.lookup_info2>>

\* No arguments: every Optional parameter left at its default None.
NoArgs == [annot_data |-> None, object_id |-> None, field_id |-> None,
           set_id |-> None, lookup_info1 |-> None, lookup_info2 |-> None,
           record_id |-> 0, limit |-> None]

\* The locals of a caller that runs nothing. warned: the except clause of
\* insert or update logged a failed save_to_history. Two fields record the
\* call's dealings with the datastore: error, the with-block in which the
\* datastore raised ("none" when it did not), and connects, the number of
\* connections the call has opened.
NoFrame == [op |-> "none", args |-> NoArgs, cur |-> NoArgs, stack |-> <<>>,
            utc_now |-> 0, record_id |-> 0, inserted_id |-> 0,
            rows_affected |-> 0, source_record |-> None,
            existing_records |-> <<>>, warned |-> FALSE,
            error |-> "none", connects |-> 0]

NoRet == [raised |-> FALSE, val |-> None]

\* get_connection committing although the block raised.
get_connection_exit_commits(ok, before, after) == after

\* get_connection: leaving the with-block commits the statements of the block,
\* an exception inside it rolls them back.
get_connection_exit(ok, before, after) == IF ok THEN after ELSE before

\* insert with object_id and field_id bound to each other's column.
InsertedRowSwapped(id, a, utc_now) ==
    [ID |-> id,
     object_id |-> a.field_id[1],
     field_id |-> a.object_id[1],
     set_id |-> a.set_id[1],
     lookup_info1 |-> a.lookup_info1[1],
     lookup_info2 |-> a.lookup_info2[1],
     Updated |-> utc_now,
     Annot_data |-> annotation_data_to_json(a.annot_data[1])]

\* The row written by insert's INSERT statement.
InsertedRow(id, a, utc_now) ==
    [ID |-> id,
     object_id |-> a.object_id[1],
     field_id |-> a.field_id[1],
     set_id |-> a.set_id[1],
     lookup_info1 |-> a.lookup_info1[1],
     lookup_info2 |-> a.lookup_info2[1],
     Updated |-> utc_now,
     Annot_data |-> annotation_data_to_json(a.annot_data[1])]

\* update without `Updated = ?` in its SET clause.
UpdatedRowStale(r, a, utc_now) ==
    [ID |-> r.ID,
     object_id |-> IF a.object_id # None THEN a.object_id[1] ELSE r.object_id,
     field_id |-> IF a.field_id # None THEN a.field_id[1] ELSE r.field_id,
     set_id |-> IF a.set_id # None THEN a.set_id[1] ELSE r.set_id,
     lookup_info1 |-> IF a.lookup_info1 # None THEN a.lookup_info1[1] ELSE r.lookup_info1,
     lookup_info2 |-> IF a.lookup_info2 # None THEN a.lookup_info2[1] ELSE r.lookup_info2,
     Updated |-> r.Updated,
     Annot_data |-> IF a.annot_data # None
                    THEN annotation_data_to_json(a.annot_data[1])
                    ELSE r.Annot_data]

\* The row as update's UPDATE ... SET leaves it: only the columns whose
\* argument is not None are set, and Updated always.
UpdatedRow(r, a, utc_now) ==
    [ID |-> r.ID,
     object_id |-> IF a.object_id # None THEN a.object_id[1] ELSE r.object_id,
     field_id |-> IF a.field_id # None THEN a.field_id[1] ELSE r.field_id,
     set_id |-> IF a.set_id # None THEN a.set_id[1] ELSE r.set_id,
     lookup_info1 |-> IF a.lookup_info1 # None THEN a.lookup_info1[1] ELSE r.lookup_info1,
     lookup_info2 |-> IF a.lookup_info2 # None THEN a.lookup_info2[1] ELSE r.lookup_info2,
     Updated |-> utc_now,
     Annot_data |-> IF a.annot_data # None
                    THEN annotation_data_to_json(a.annot_data[1])
                    ELSE r.Annot_data]

\* update's `if not updates`: no optional argument was supplied.
NoUpdates(a) ==
    /\ a.annot_data = None /\ a.object_id = None /\ a.field_id = None
    /\ a.set_id = None /\ a.lookup_info1 = None /\ a.lookup_info2 = None

\* query with the object_id filter left out of the WHERE clause.
QueryMatchesAnyObject(r, a) ==
    /\ a.field_id # None => r.field_id = a.field_id[1]
    /\ a.set_id # None => r.set_id = a.set_id[1]
    /\ a.lookup_info1 # None => r.lookup_info1 = a.lookup_info1[1]
    /\ a.lookup_info2 # None => r.lookup_info2 = a.lookup_info2[1]

\* The WHERE clause built by query: the supplied filters, joined by AND.
QueryMatches(r, a) ==
    /\ a.object_id # None => r.object_id = a.object_id[1]
    /\ a.field_id # None => r.field_id = a.field_id[1]
    /\ a.set_id # None => r.set_id = a.set_id[1]
    /\ a.lookup_info1 # None => r.lookup_info1 = a.lookup_info1[1]
    /\ a.lookup_info2 # None => r.lookup_info2 = a.lookup_info2[1]

\* The WHERE clause built by delete_by_filters: object_id, field_id, set_id.
DeleteMatches(r, a) ==
    /\ a.object_id # None => r.object_id = a.object_id[1]
    /\ a.field_id # None => r.field_id = a.field_id[1]
    /\ a.set_id # None => r.set_id = a.set_id[1]

\* delete_by_filters' `if not where_clauses`.
NoFilters(a) == a.object_id = None /\ a.field_id = None /\ a.set_id = None

\* ORDER BY ID DESC.
RECURSIVE OrderByIdDesc(_)
OrderByIdDesc(S) ==
    IF S = {} THEN <<>>
    ELSE LET top == CHOOSE r \in S : \A q \in S : q.ID <= r.ID
         IN <<top>> \o OrderByIdDesc(S \ {top})

\* OFFSET 0 ROWS FETCH NEXT limit ROWS ONLY.
FetchNext(s, limit) ==
    IF limit = None \/ Len(s) <= limit[1] THEN s ELSE SubSeq(s, 1, limit[1])

\* The rows query returns.
QueryResult(table, a) ==
    FetchNext(OrderByIdDesc({r \in table : QueryMatches(r, a)}), a.limit)

\* save_to_history keeping one history row per record: the latest row is
\* overwritten.
history_replace_last(table, row) ==
    IF table = <<>> THEN <<row>> ELSE [table EXCEPT ![Len(table)] = row]

\* save_to_history's INSERT INTO the history table: one more row, with the
\* next HISTID.
history_insert(table, row) == Append(table, row)

\* save_to_history with the SET_ID and OBJECT_ID parameters in each other's
\* place.
HistoryRowSwapped(source_record, utc_now) ==
    [SET_ID |-> source_record.object_id,
     OBJECT_ID |-> source_record.set_id,
     FIELD_ID |-> source_record.field_id,
     LOOKUP_INFO1 |-> source_record.lookup_info1,
     LOOKUP_INFO2 |-> source_record.lookup_info2,
     USERID |-> 0,
     USERNAME |-> "System",
     ANNOT_DATA |-> source_record.Annot_data,
     MODIFIED |-> utc_now]

\* The row save_to_history inserts into the history table.
HistoryRow(source_record, utc_now) ==
    [SET_ID |-> source_record.set_id,
     OBJECT_ID |-> source_record.object_id,
     FIELD_ID |-> source_record.field_id,
     LOOKUP_INFO1 |-> source_record.lookup_info1,
     LOOKUP_INFO2 |-> source_record.lookup_info2,
     USERID |-> 0,
     USERNAME |-> "System",
     ANNOT_DATA |-> source_record.Annot_data,
     MODIFIED |-> utc_now]

(* ------------------- returning and raising: control ------------------- *)

\* What a caller does next: its new position, locals and (when its call has
\* ended) outcome.

\* The call ends and hands val to the store's user.
ReturnTop(f, val) ==
    [pc |-> "idle", frame |-> [f EXCEPT !.stack = <<>>],
     ret |-> [raised |-> FALSE, val |-> val]]

\* The call ends with an exception that reaches the store's user.
RaiseTop(f, exc) ==
    [pc |-> "idle", frame |-> [f EXCEPT !.stack = <<>>],
     ret |-> [raised |-> TRUE, val |-> exc]]

\* upsert's two return statements: (record_id, False) after the update,
\* (record_id, True) after the insert; update's result is not looked at.
upsert_return(f, was_new_insert) ==
    ReturnTop(f, <<IF was_new_insert THEN f.inserted_id ELSE f.record_id,
                   was_new_insert>>)

\* insert's `return int(inserted_id)`.
insert_return(f) ==
    IF f.op = "upsert" THEN upsert_return(f, TRUE) ELSE ReturnTop(f, f.inserted_id)

\* update's `return True` / `return False`.
update_return(f, found) ==
    IF f.op = "upsert" THEN upsert_return(f, FALSE) ELSE ReturnTop(f, found)

\* The code of insert and of update after their call of save_to_history:
\* caller is the function that called it, failed tells whether the call
\* raised (the except clause logs a warning and goes on).
after_history(f, caller, failed) ==
    LET g == [f EXCEPT !.warned = failed]
    IN IF caller = "insert" THEN insert_return(g) ELSE update_return(g, TRUE)

\* Position of save_to_history on the call stack, 0 when it is not running.
HistoryDepth(stack) ==
    IF \E i \in 1..Len(stack) : stack[i] = "save_to_history"
    THEN CHOOSE i \in 1..Len(stack) : stack[i] = "save_to_history"
    ELSE 0

\* save_to_history returns val (None or Some(HISTID)).
save_to_history_return(f, val) ==
    LET d == HistoryDepth(f.stack)
    IN IF d = 1 THEN ReturnTop(f, val)
       ELSE after_history(f, f.stack[d - 1], FALSE)

\* insert and update without the try/except around save_to_history.
RaiseUncaught(f, exc) == RaiseTop(f, exc)

\* An exception raised where the caller stands: the try/except around the
\* save_to_history call of insert and update catches it, nothing else does.
Raise(f, exc) ==
    LET d == HistoryDepth(f.stack)
    IN IF d > 1 THEN after_history(f, f.stack[d - 1], TRUE)
       ELSE RaiseTop(f, exc)

\* insert and update call self.save_to_history(id): it checks the
\* configuration, then calls self.read(id).
begin_history(f, id) ==
    [pc |-> "read_connect",
     frame |-> [f EXCEPT !.record_id = id,
                         !.stack = f.stack \o <<"save_to_history", "read">>],
     ret |-> NoRet]

\* The code after insert's and update's with-block: `if self.history_table_name`.
after_insert(f, configured) ==
    IF configured THEN begin_history(f, f.inserted_id) ELSE insert_return(f)

\* update without the `if rows_affected > 0` test.
after_update_unchecked(f, configured) ==
    IF configured THEN begin_history(f, f.record_id) ELSE update_return(f, TRUE)

after_update(f, configured) ==
    IF f.rows_affected > 0
    THEN IF configured THEN begin_history(f, f.record_id) ELSE update_return(f, TRUE)
    ELSE update_return(f, FALSE)

\* get_connection closing the connection after the commit only.
get_connection_leaks(open, ok) == IF ok THEN open - 1 ELSE open

\* get_connection's finally clause: the connection that was opened is closed,
\* whether the block ended well or raised.
get_connection_finally(open, ok) == open - 1

\* The datastore raised in the with-block at label.
Failed(f, label) == [f EXCEPT !.error = label]

Apply(p, out) ==
    /\ pc' = [pc EXCEPT ![p] = out.pc]
    /\ frame' = [frame EXCEPT ![p] = out.frame]
    /\ ret' = [ret EXCEPT ![p] = out.ret]

\* A caller starts a call: the bookkeeping common to all operations.
Begin(p) ==
    /\ pc[p] = "idle"
    /\ calls < MaxCalls
    /\ calls' = calls + 1
    /\ pre' = [pre EXCEPT ![p] = [rows |-> rows, history |-> history]]

\* Leaving a with-block: the connection is closed.
Close(p, ok) ==
    conns' = [conns EXCEPT ![p] = get_connection_finally(@, ok)]

ConnectLabels == {"insert_connect", "update_connect", "read_connect",
                  "query_connect", "delete_connect",
                  "delete_by_filters_connect", "history_connect"}

ExecuteLabel == [insert_connect |-> "insert_execute",
                 update_connect |-> "update_execute",
                 read_connect |-> "read_execute",
                 query_connect |-> "query_execute",
                 delete_connect |-> "delete_execute",
                 delete_by_filters_connect |-> "delete_by_filters_execute",
                 history_connect |-> "history_execute"]

(* ------------------------------ actions ------------------------------- *)

\* get_connection up to its yield: pyodbc.connect succeeds.
Connect(p) ==
    /\ pc[p] \in ConnectLabels
    /\ pc' = [pc EXCEPT ![p] = ExecuteLabel[pc[p]]]
    /\ conns' = [conns EXCEPT ![p] = @ + 1]
    /\ frame' = [frame EXCEPT ![p].connects = @ + 1]
    /\ UNCHANGED <<rows, identity, history, clock, history_table_name,
                   ret, pre, calls>>

\* get_connection: pyodbc.connect raises; there is no connection to close.
ConnectFail(p) ==
    /\ pc[p] \in ConnectLabels
    /\ Apply(p, Raise(Failed(frame[p], pc[p]), "DatabaseError"))
    /\ UNCHANGED <<rows, identity, history, clock, history_table_name,
                   conns, pre, calls>>

\* insert, up to its with-block.
CallInsert(p) ==
    \E d \in AnnotDatas, o \in ObjectIds, fi \in FieldIds, s \in SetIds,
       l1 \in LookupInfo1s, l2 \in LookupInfo2s :
        LET a == [NoArgs EXCEPT !.annot_data = Some(d), !.object_id = Some(o),
                                !.field_id = Some(fi), !.set_id = Some(s),
                                !.lookup_info1 = Some(l1), !.lookup_info2 = Some(l2)]
        IN /\ Begin(p)
           /\ pc' = [pc EXCEPT ![p] = "insert_connect"]
           /\ frame' = [frame EXCEPT ![p] =
                  [NoFrame EXCEPT !.op = "insert", !.args = a, !.cur = a,
                                  !.stack = <<"insert">>, !.utc_now = clock]]
           /\ ret' = [ret EXCEPT ![p] = NoRet]
           /\ clock' = clock + 1
           /\ UNCHANGED <<rows, identity, history, history_table_name, conns>>

\* insert's with-block: INSERT, SELECT @@IDENTITY, commit.
InsertExecute(p) ==
    /\ pc[p] = "insert_execute"
    /\ LET f == frame[p]
           id == identity + 1
           g == [f EXCEPT !.inserted_id = id]
       IN /\ rows' = get_connection_exit(TRUE, rows,
                         rows \cup {InsertedRow(id, f.cur, f.utc_now)})
          /\ identity' = id
          /\ Close(p, TRUE)
          /\ Apply(p, after_insert(g, history_table_name # None))
    /\ UNCHANGED <<history, clock, history_table_name, pre, calls>>

\* insert's with-block raises: before the INSERT ran, or after it (the
\* IDENTITY value is then used up although the row is rolled back).
InsertExecuteFail(p) ==
    /\ pc[p] = "insert_execute"
    /\ \E executed \in BOOLEAN :
        LET f == frame[p]
            id == identity + 1
        IN /\ rows' = get_connection_exit(FALSE, rows,
                          IF executed
                          THEN rows \cup {InsertedRow(id, f.cur, f.utc_now)}
                          ELSE rows)
           /\ identity' = IF executed THEN id ELSE identity
           /\ Close(p, FALSE)
           /\ Apply(p, Raise(Failed(f, pc[p]), "DatabaseError"))
    /\ UNCHANGED <<history, clock, history_table_name, pre, calls>>

\* read, up to its with-block.
CallRead(p) ==
    \E id \in 1..(identity + 1) :
        /\ Begin(p)
        /\ pc' = [pc EXCEPT ![p] = "read_connect"]
        /\ frame' = [frame EXCEPT ![p] =
               [NoFrame EXCEPT !.op = "read", !.args = [NoArgs EXCEPT !.record_id = id],
                               !.record_id = id, !.stack = <<"read">>]]
        /\ ret' = [ret EXCEPT ![p] = NoRet]
        /\ UNCHANGED <<rows, identity, history, clock, history_table_name, conns>>

\* read's with-block: SELECT ... WHERE ID = ?; None when there is no row.
\* Called by save_to_history, the result decides whether a history row is
\* written (utc_now is read after the read returned a record).
ReadExecute(p) ==
    /\ pc[p] = "read_execute"
    /\ LET f == frame[p]
           found == {r \in rows : r.ID = f.record_id}
           result == IF found = {} THEN None ELSE Some(CHOOSE r \in found : TRUE)
           g == [f EXCEPT !.stack = SubSeq(f.stack, 1, Len(f.stack) - 1)]
       IN IF Len(f.stack) = 1
          THEN /\ Apply(p, ReturnTop(f, result))
               /\ clock' = clock
          ELSE IF result = None
          THEN /\ Apply(p, save_to_history_return(g, None))
               /\ clock' = clock
          ELSE /\ Apply(p, [pc |-> "history_connect",
                            frame |-> [g EXCEPT !.source_record = result,
                                                !.utc_now = clock],
                            ret |-> NoRet])
               /\ clock' = clock + 1
    /\ Close(p, TRUE)
    /\ UNCHANGED <<rows, identity, history, history_table_name, pre, calls>>

\* read's with-block raises.
ReadExecuteFail(p) ==
    /\ pc[p] = "read_execute"
    /\ Close(p, FALSE)
    /\ Apply(p, Raise(Failed(frame[p], pc[p]), "DatabaseError"))
    /\ UNCHANGED <<rows, identity, history, clock, history_table_name, pre, calls>>

\* save_to_history called by the store's user: ValueError when no history
\* table is configured, else the read of the source record.
CallSaveToHistory(p) ==
    \E id \in 1..(identity + 1) :
        LET f == [NoFrame EXCEPT !.op = "save_to_history",
                                 !.args = [NoArgs EXCEPT !.record_id = id],
                                 !.record_id = id,
                                 !.stack = <<"save_to_history", "read">>]
        IN /\ Begin(p)
           /\ IF history_table_name = None
              THEN Apply(p, RaiseTop(f, "ValueError"))
              ELSE Apply(p, [pc |-> "read_connect", frame |-> f, ret |-> NoRet])
           /\ UNCHANGED <<rows, identity, history, clock, history_table_name, conns>>

\* save_to_history's with-block: INSERT INTO the history table, commit.
HistoryExecute(p) ==
    /\ pc[p] = "history_execute"
    /\ LET f == frame[p]
       IN /\ history' = get_connection_exit(TRUE, history,
                 history_insert(history, HistoryRow(f.source_record[1], f.utc_now)))
          /\ Apply(p, save_to_history_return(f, Some(Len(history) + 1)))
    /\ Close(p, TRUE)
    /\ UNCHANGED <<rows, identity, clock, history_table_name, pre, calls>>

\* save_to_history's with-block raises: the history row is rolled back.
HistoryExecuteFail(p) ==
    /\ pc[p] = "history_execute"
    /\ LET f == frame[p]
       IN /\ history' = get_connection_exit(FALSE, history,
                 history_insert(history, HistoryRow(f.source_record[1], f.utc_now)))
          /\ Apply(p, Raise(Failed(f, pc[p]), "DatabaseError"))
    /\ Close(p, FALSE)
    /\ UNCHANGED <<rows, identity, clock, history_table_name, pre, calls>>

\* update, up to its with-block, when at least one field is supplied.
CallUpdate(p) ==
    \E id \in 1..(identity + 1),
       d \in Opt(UpdateAnnotDatas), o \in Opt(UpdateObjectIds), fi \in Opt(FieldIds),
       s \in Opt(SetIds), l1 \in Opt(LookupInfo1s), l2 \in Opt(LookupInfo2s) :
        LET a == [NoArgs EXCEPT !.record_id = id, !.annot_data = d, !.object_id = o,
                                !.field_id = fi, !.set_id = s,
                                !.lookup_info1 = l1, !.lookup_info2 = l2]
        IN /\ ~NoUpdates(a)
           /\ Begin(p)
           /\ pc' = [pc EXCEPT ![p] = "update_connect"]
           /\ frame' = [frame EXCEPT ![p] =
                  [NoFrame EXCEPT !.op = "update", !.args = a, !.cur = a,
                                  !.record_id = id, !.stack = <<"update">>,
                                  !.utc_now = clock]]
           /\ ret' = [ret EXCEPT ![p] = NoRet]
           /\ clock' = clock + 1
           /\ UNCHANGED <<rows, identity, history, history_table_name, conns>>

\* update with no field supplied: `if not updates: return False`, before any
\* connection is opened and before the timestamp is read.
CallUpdateNothing(p) ==
    \E id \in 1..(identity + 1) :
        LET a == [NoArgs EXCEPT !.record_id = id]
            f == [NoFrame EXCEPT !.op = "update", !.args = a, !.cur = a,
                                 !.record_id = id, !.stack = <<"update">>]
        IN /\ NoUpdates(a)
           /\ Begin(p)
           /\ Apply(p, update_return(f, FALSE))
           /\ UNCHANGED <<rows, identity, history, clock, history_table_name, conns>>

\* update's with-block: UPDATE ... WHERE ID = ?, rowcount, commit.
UpdateExecute(p) ==
    /\ pc[p] = "update_execute"
    /\ LET f == frame[p]
           hit == {r \in rows : r.ID = f.record_id}
           g == [f EXCEPT !.rows_affected = Cardinality(hit)]
       IN /\ rows' = get_connection_exit(TRUE, rows,
                 (rows \ hit) \cup {UpdatedRow(r, f.cur, f.utc_now) : r \in hit})
          /\ Apply(p, after_update(g, history_table_name # None))
    /\ Close(p, TRUE)
    /\ UNCHANGED <<identity, history, clock, history_table_name, pre, calls>>

\* update's with-block raises: the UPDATE is rolled back.
UpdateExecuteFail(p) ==
    /\ pc[p] = "update_execute"
    /\ LET f == frame[p]
           hit == {r \in rows : r.ID = f.record_id}
       IN /\ rows' = get_connection_exit(FALSE, rows,
                 (rows \ hit) \cup {UpdatedRow(r, f.cur, f.utc_now) : r \in hit})
          /\ Apply(p, Raise(Failed(f, pc[p]), "DatabaseError"))
    /\ Close(p, FALSE)
    /\ UNCHANGED <<identity, history, clock, history_table_name, pre, calls>>

\* query, up to its with-block.
CallQuery(p) ==
    \E o \in Opt(ObjectIds), fi \in Opt(FieldIds), s \in Opt(SetIds),
       l1 \in Opt(LookupInfo1s), l2 \in Opt(LookupInfo2s), limit \in Opt({1}) :
        LET a == [NoArgs EXCEPT !.object_id = o, !.field_id = fi, !.set_id = s,
                                !.lookup_info1 = l1, !.lookup_info2 = l2,
                                !.limit = limit]
        IN /\ Begin(p)
           /\ pc' = [pc EXCEPT ![p] = "query_connect"]
           /\ frame' = [frame EXCEPT ![p] =
                  [NoFrame EXCEPT !.op = "query", !.args = a, !.cur = a,
                                  !.stack = <<"query">>]]
           /\ ret' = [ret EXCEPT ![p] = NoRet]
           /\ UNCHANGED <<rows, identity, history, clock, history_table_name, conns>>

\* upsert, up to the with-block of its query by the full lookup key, limit 1.
CallUpsert(p) ==
    \E d \in AnnotDatas, o \in ObjectIds, fi \in FieldIds, s \in SetIds,
       l1 \in LookupInfo1s, l2 \in LookupInfo2s :
        LET a == [NoArgs EXCEPT !.annot_data = Some(d), !.object_id = Some(o),
                                !.field_id = Some(fi), !.set_id = Some(s),
                                !.lookup_info1 = Some(l1), !.lookup_info2 = Some(l2)]
        IN /\ Begin(p)
           /\ pc' = [pc EXCEPT ![p] = "query_connect"]
           /\ frame' = [frame EXCEPT ![p] =
                  [NoFrame EXCEPT !.op = "upsert", !.args = a,
                                  !.cur = [a EXCEPT !.annot_data = None,
                                                    !.limit = Some(1)],
                                  !.stack = <<"upsert", "query">>]]
           /\ ret' = [ret EXCEPT ![p] = NoRet]
           /\ UNCHANGED <<rows, identity, history, clock, history_table_name, conns>>

\* upsert after its query: update(record_id, annot_data=annot_data) on the
\* first record found, insert with the call's arguments when none was found;
\* each reads the clock before it opens its connection.
upsert_branch(f, existing_records, now) ==
    IF existing_records # <<>>
    THEN [pc |-> "update_connect",
          frame |-> [f EXCEPT !.existing_records = existing_records,
                              !.record_id = existing_records[1].ID,
                              !.cur = [NoArgs EXCEPT
                                          !.record_id = existing_records[1].ID,
                                          !.annot_data = f.args.annot_data],
                              !.stack = <<"upsert", "update">>,
                              !.utc_now = now],
          ret |-> NoRet]
    ELSE [pc |-> "insert_connect",
          frame |-> [f EXCEPT !.existing_records = existing_records,
                              !.cur = f.args,
                              !.stack = <<"upsert", "insert">>,
                              !.utc_now = now],
          ret |-> NoRet]

\* query's with-block: SELECT ... WHERE ... ORDER BY ID DESC, fetchall.
QueryExecute(p) ==
    /\ pc[p] = "query_execute"
    /\ LET f == frame[p]
           results == QueryResult(rows, f.cur)
       IN IF f.op = "upsert"
          THEN /\ Apply(p, upsert_branch(f, results, clock))
               /\ clock' = clock + 1
          ELSE /\ Apply(p, ReturnTop(f, results))
               /\ clock' = clock
    /\ Close(p, TRUE)
    /\ UNCHANGED <<rows, identity, history, history_table_name, pre, calls>>

\* query's with-block raises.
QueryExecuteFail(p) ==
    /\ pc[p] = "query_execute"
    /\ Close(p, FALSE)
    /\ Apply(p, Raise(Failed(frame[p], pc[p]), "DatabaseError"))
    /\ UNCHANGED <<rows, identity, history, clock, history_table_name, pre, calls>>

\* delete, up to its with-block.
CallDelete(p) ==
    \E id \in 1..(identity + 1) :
        /\ Begin(p)
        /\ pc' = [pc EXCEPT ![p] = "delete_connect"]
        /\ frame' = [frame EXCEPT ![p] =
               [NoFrame EXCEPT !.op = "delete",
                               !.args = [NoArgs EXCEPT !.record_id = id],
                               !.record_id = id, !.stack = <<"delete">>]]
        /\ ret' = [ret EXCEPT ![p] = NoRet]
        /\ UNCHANGED <<rows, identity, history, clock, history_table_name, conns>>

\* delete's with-block: DELETE ... WHERE ID = ?; True when a row went.
DeleteExecute(p) ==
    /\ pc[p] = "delete_execute"
    /\ LET f == frame[p]
           hit == {r \in rows : r.ID = f.record_id}
           g == [f EXCEPT !.rows_affected = Cardinality(hit)]
       IN /\ rows' = get_connection_exit(TRUE, rows, rows \ hit)
          /\ Apply(p, ReturnTop(g, g.rows_affected > 0))
    /\ Close(p, TRUE)
    /\ UNCHANGED <<identity, history, clock, history_table_name, pre, calls>>

\* delete's with-block raises: the DELETE is rolled back.
DeleteExecuteFail(p) ==
    /\ pc[p] = "delete_execute"
    /\ LET f == frame[p]
           hit == {r \in rows : r.ID = f.record_id}
       IN /\ rows' = get_connection_exit(FALSE, rows, rows \ hit)
          /\ Apply(p, Raise(Failed(f, pc[p]), "DatabaseError"))
    /\ Close(p, FALSE)
    /\ UNCHANGED <<identity, history, clock, history_table_name, pre, calls>>

\* delete_by_filters without the `if not where_clauses` test.
delete_by_filters_unguarded(f) ==
    [pc |-> "delete_by_filters_connect", frame |-> f, ret |-> NoRet]

\* delete_by_filters: ValueError when no filter is given, before any
\* connection is opened; else up to its with-block.
delete_by_filters_begin(f) ==
    IF NoFilters(f.args)
    THEN RaiseTop(f, "ValueError")
    ELSE [pc |-> "delete_by_filters_connect", frame |-> f, ret |-> NoRet]

CallDeleteByFilters(p) ==
    \E o \in Opt(ObjectIds), fi \in Opt(FilterFieldIds), s \in Opt(SetIds) :
        LET a == [NoArgs EXCEPT !.object_id = o, !.field_id = fi, !.set_id = s]
            f == [NoFrame EXCEPT !.op = "delete_by_filters", !.args = a, !.cur = a,
                                 !.stack = <<"delete_by_filters">>]
        IN /\ Begin(p)
           /\ Apply(p, delete_by_filters_begin(f))
           /\ UNCHANGED <<rows, identity, history, clock, history_table_name, conns>>

\* delete_by_filters' with-block: DELETE ... WHERE <filters>; the row count.
DeleteByFiltersExecute(p) ==
    /\ pc[p] = "delete_by_filters_execute"
    /\ LET f == frame[p]
           hit == {r \in rows : DeleteMatches(r, f.cur)}
           g == [f EXCEPT !.rows_affected = Cardinality(hit)]
       IN /\ rows' = get_connection_exit(TRUE, rows, rows \ hit)
          /\ Apply(p, ReturnTop(g, g.rows_affected))
    /\ Close(p, TRUE)
    /\ UNCHANGED <<identity, history, clock, history_table_name, pre, calls>>

\* delete_by_filters' with-block raises: the DELETE is rolled back.
DeleteByFiltersExecuteFail(p) ==
    /\ pc[p] = "delete_by_filters_execute"
    /\ LET f == frame[p]
           hit == {r \in rows : DeleteMatches(r, f.cur)}
       IN /\ rows' = get_connection_exit(FALSE, rows, rows \ hit)
          /\ Apply(p, Raise(Failed(f, pc[p]), "DatabaseError"))
    /\ Close(p, FALSE)
    /\ UNCHANGED <<identity, history, clock, history_table_name, pre, calls>>

(* --------------------------- specifications --------------------------- *)

\* The constructor has run and is not part of the specification: the
\* configuration file and self.config play no further part.
Constructed ==
    /\ config_file = None
    /\ manager = [state |-> "constructed", config |-> None, table_name |-> None,
                  error |-> None]

\* No function outside the store is being called.
NoCall ==
    /\ call_args = None
    /\ returned = None

\* The store as constructed: empty tables; the configuration may or may not
\* name a history table (config.get('annotation_history_table')).
InitStore ==
    /\ Constructed
    /\ NoCall
    /\ rows = {}
    /\ identity = 0
    /\ history = <<>>
    /\ clock = 1
    /\ history_table_name \in Opt({"AnnotationHistory"})
    /\ frame = [p \in Procs |-> NoFrame]
    /\ conns = [p \in Procs |-> 0]
    /\ ret = [p \in Procs |-> NoRet]
    /\ pre = [p \in Procs |-> [rows |-> {}, history |-> <<>>]]
    /\ calls = 0

\* One caller: its calls follow one another.
Init ==
    /\ InitStore
    /\ pc = [p \in Procs |-> IF p = 1 THEN "idle" ELSE "off"]

Step(p) ==
    \/ Connect(p) \/ ConnectFail(p)
    \/ InsertExecute(p) \/ InsertExecuteFail(p)
    \/ UpdateExecute(p) \/ UpdateExecuteFail(p)
    \/ ReadExecute(p) \/ ReadExecuteFail(p)
    \/ QueryExecute(p) \/ QueryExecuteFail(p)
    \/ DeleteExecute(p) \/ DeleteExecuteFail(p)
    \/ DeleteByFiltersExecute(p) \/ DeleteByFiltersExecuteFail(p)
    \/ HistoryExecute(p) \/ HistoryExecuteFail(p)

Call(p) ==
    \/ CallInsert(p) \/ CallUpdate(p) \/ CallUpdateNothing(p)
    \/ CallRead(p) \/ CallQuery(p) \/ CallDelete(p)
    \/ CallDeleteByFilters(p) \/ CallSaveToHistory(p) \/ CallUpsert(p)

\* A caller that runs nothing may call; one inside a call takes its next step.
Ready(p) == pc[p] = "idle" /\ calls < MaxCalls

Next ==
    /\ \E p \in Procs : (Ready(p) /\ Call(p)) \/ Step(p)
    /\ UNCHANGED <<config_file, manager, call_args, returned>>

Spec == Init /\ [][Next]_vars

\* The steps in which the datastore does not raise.
StepOk(p) ==
    \/ Connect(p)
    \/ InsertExecute(p)
    \/ UpdateExecute(p)
    \/ ReadExecute(p)
    \/ QueryExecute(p)
    \/ HistoryExecute(p)

\* One caller that only calls upsert, against a datastore that does not fail.
NextUpsert ==
    /\ \E p \in Procs : (Ready(p) /\ CallUpsert(p)) \/ StepOk(p)
    /\ UNCHANGED <<config_file, manager, call_args, returned>>

SpecUpsert == Init /\ [][NextUpsert]_vars

\* Two callers whose upsert calls interleave at the boundaries of their
\* with-blocks, against a datastore that does not fail.
InitRace ==
    /\ InitStore
    /\ pc = [p \in Procs |-> "idle"]

SpecRace == InitRace /\ [][NextUpsert]_vars

(* ------------------------------ claims -------------------------------- *)

\* The caller has finished a call of op and runs nothing.
Finished(p, op) == pc[p] = "idle" /\ frame[p].op = op

\* The lookup key a call was given.
ArgsKey(a) == <<a.object_id[1], a.field_id[1], a.set_id[1],
                a.lookup_info1[1], a.lookup_info2[1]>>

\* The current records of a table that carry lookup key K.
RowsWithKey(table, K) == {r \in table : KeyOf(r) = K}

\* C1: in a sequence of non-failing upsert calls of one caller on an
\* initially empty store, an upsert on a key without a current record inserts
\* and returns (id, TRUE), an upsert on a key that has one returns that
\* record's id and FALSE, and after every call there is exactly one current
\* record for the key (and never two for any key).
C1_UpsertIdempotent ==
    /\ \A r1, r2 \in rows : KeyOf(r1) = KeyOf(r2) => r1 = r2
    /\ \A p \in Procs :
        Finished(p, "upsert") =>
            LET K == ArgsKey(frame[p].args)
                before == RowsWithKey(pre[p].rows, K)
                after == RowsWithKey(rows, K)
            IN /\ ~ret[p].raised
               /\ Cardinality(after) = 1
               /\ \A r \in after : r.ID = ret[p].val[1]
               /\ ret[p].val[2] = (before = {})
               /\ \A r \in before : r.ID = ret[p].val[1]
               /\ pre[p].rows \ before \subseteq rows

\* C1 witness: a second upsert on a key has returned the id of the record the
\* first one inserted, with was_inserted = FALSE.
C1_Witness ==
    \E p \in Procs :
        /\ Finished(p, "upsert")
        /\ ret[p].val[2] = FALSE
        /\ \E r \in pre[p].rows : r.ID = ret[p].val[1]
        /\ Cardinality(RowsWithKey(rows, ArgsKey(frame[p].args))) = 1

\* C2: when two callers' upserts on the same lookup key have both run their
\* query before either wrote (both found no record), both take the insert
\* branch: once both have finished, each has returned was_inserted = TRUE
\* with an id of its own, and both records are current for that key.
C2_RaceInsertsTwice ==
    \A p, q \in Procs :
        (/\ p # q
         /\ Finished(p, "upsert") /\ Finished(q, "upsert")
         /\ ArgsKey(frame[p].args) = ArgsKey(frame[q].args)
         /\ frame[p].existing_records = <<>>
         /\ frame[q].existing_records = <<>>)
        => /\ ~ret[p].raised /\ ~ret[q].raised
           /\ ret[p].val[2] = TRUE /\ ret[q].val[2] = TRUE
           /\ ret[p].val[1] # ret[q].val[1]
           /\ \A id \in {ret[p].val[1], ret[q].val[1]} :
                \E r \in RowsWithKey(rows, ArgsKey(frame[p].args)) : r.ID = id

\* C2 witness: two current records for one lookup key, each inserted by an
\* upsert that returned was_inserted = TRUE.
C2_Witness ==
    \E p, q \in Procs :
        /\ p # q
        /\ Finished(p, "upsert") /\ Finished(q, "upsert")
        /\ ret[p].val[2] = TRUE /\ ret[q].val[2] = TRUE
        /\ Cardinality(RowsWithKey(rows, ArgsKey(frame[p].args))) = 2
        /\ ArgsKey(frame[p].args) = ArgsKey(frame[q].args)

\* The with-blocks of save_to_history: the read of the source record and the
\* insert of the history row.
HistoryLabels == {"read_connect", "read_execute",
                  "history_connect", "history_execute"}

\* The with-blocks of the primary statement of insert, update, delete and
\* delete_by_filters.
PrimaryLabels == {"insert_execute", "update_execute",
                  "delete_execute", "delete_by_filters_execute"}

\* a is a prefix of b.
IsPrefix(a, b) == Len(a) <= Len(b) /\ SubSeq(b, 1, Len(a)) = a

\* update's arguments as upsert passes them: the payload alone.
PayloadOnly(a) == [NoArgs EXCEPT !.annot_data = a.annot_data]

\* after is before with one new record id, carrying the key and payload of a.
InsertedAs(before, after, id, a) ==
    /\ \A q \in before : q.ID # id
    /\ \E r \in after :
        /\ r.ID = id
        /\ KeyOf(r) = ArgsKey(a)
        /\ r.Annot_data = annotation_data_to_json(a.annot_data[1])
        /\ after = before \cup {r}

\* after is before with record id changed in exactly the fields a supplies,
\* its timestamp moved forward, every other record as it was.
UpdatedAs(before, after, id, a) ==
    \E old \in before, new \in after :
        /\ old.ID = id /\ new.ID = id
        /\ after = (before \ {old}) \cup {new}
        /\ new.object_id = IF a.object_id = None THEN old.object_id ELSE a.object_id[1]
        /\ new.field_id = IF a.field_id = None THEN old.field_id ELSE a.field_id[1]
        /\ new.set_id = IF a.set_id = None THEN old.set_id ELSE a.set_id[1]
        /\ new.lookup_info1 =
              IF a.lookup_info1 = None THEN old.lookup_info1 ELSE a.lookup_info1[1]
        /\ new.lookup_info2 =
              IF a.lookup_info2 = None THEN old.lookup_info2 ELSE a.lookup_info2[1]
        /\ new.Annot_data =
              IF a.annot_data = None THEN old.Annot_data
              ELSE annotation_data_to_json(a.annot_data[1])
        /\ new.Updated > old.Updated

\* The caller has finished an insert, update or upsert that did not raise
\* and, for update, returned TRUE.
Wrote(p) ==
    /\ pc[p] = "idle"
    /\ frame[p].op \in {"insert", "update", "upsert"}
    /\ ~ret[p].raised
    /\ frame[p].op = "update" => ret[p].val = TRUE

\* The id of the record a finished insert, update or upsert wrote, as the
\* caller knows it: the value returned, or the id it passed to update.
WrittenId(p) ==
    CASE frame[p].op = "insert" -> ret[p].val
      [] frame[p].op = "update" -> frame[p].args.record_id
      [] frame[p].op = "upsert" -> ret[p].val[1]

\* The table holds, against the table of before the call, what the finished
\* call of p was to write.
WriteLanded(p) ==
    CASE frame[p].op = "insert" ->
            InsertedAs(pre[p].rows, rows, ret[p].val, frame[p].args)
      [] frame[p].op = "update" ->
            UpdatedAs(pre[p].rows, rows, frame[p].args.record_id, frame[p].args)
      [] frame[p].op = "upsert" ->
            IF ret[p].val[2]
            THEN InsertedAs(pre[p].rows, rows, ret[p].val[1], frame[p].args)
            ELSE UpdatedAs(pre[p].rows, rows, ret[p].val[1],
                           PayloadOnly(frame[p].args))

\* The history is the history of before p's call plus one row, which copies
\* the key and payload of the record p wrote and names the system actor.
OneHistoryRowAppended(p) ==
    /\ Len(history) = Len(pre[p].history) + 1
    /\ IsPrefix(pre[p].history, history)
    /\ \E r \in rows :
        LET h == history[Len(history)]
        IN /\ r.ID = WrittenId(p)
           /\ <<h.OBJECT_ID, h.FIELD_ID, h.SET_ID, h.LOOKUP_INFO1, h.LOOKUP_INFO2>>
                 = KeyOf(r)
           /\ h.ANNOT_DATA = r.Annot_data
           /\ frame[p].args.annot_data # None =>
                 h.ANNOT_DATA = annotation_data_to_json(frame[p].args.annot_data[1])
           /\ h.USERID = 0 /\ h.USERNAME = "System"

\* While p's call has added to the history, the record the newest history
\* row copies is already committed in the annotations table.
HistoryFollowsWrite(p) ==
    Len(history) > Len(pre[p].history) =>
        \E r \in rows :
            LET h == history[Len(history)]
            IN /\ <<h.OBJECT_ID, h.FIELD_ID, h.SET_ID, h.LOOKUP_INFO1,
                    h.LOOKUP_INFO2>> = KeyOf(r)
               /\ h.ANNOT_DATA = r.Annot_data

C4_HistoryFailureKeepsWrite ==
    \A p \in Procs :
        (/\ pc[p] = "idle"
         /\ frame[p].op \in {"insert", "update", "upsert"}
         /\ frame[p].error \in HistoryLabels)
        => /\ Wrote(p)
           /\ WriteLanded(p)
           /\ frame[p].warned
           /\ history = pre[p].history

\* C4 witness: an update whose history insert raised has returned TRUE.
C4_Witness ==
    \E p \in Procs :
        /\ Wrote(p) /\ frame[p].op = "update"
        /\ frame[p].error = "history_execute"
        /\ WriteLanded(p)

\* C5: the history is append-only: every step of every operation leaves the
\* History Records there are in place and unchanged, so the history of any
\* state is a prefix of the history of every later state; a delete of a
\* current record among them.
C5_HistoryAppendOnly == [][IsPrefix(history, history')]_vars

\* C5 witness: a delete has removed a current record whose History Record is
\* still in the history.
C5_Witness ==
    \E p \in Procs :
        /\ Finished(p, "delete")
        /\ ~ret[p].raised /\ ret[p].val = TRUE
        /\ rows = {}
        /\ Len(history) = 1

\* C6: when the datastore raises in the primary statement of insert, update,
\* delete or delete_by_filters, the call raises, the current records are
\* those of before the call and no History Record is added.
C6_FailedWriteRolledBack ==
    \A p \in Procs :
        (pc[p] = "idle" /\ frame[p].error \in PrimaryLabels)
        => /\ ret[p].raised
           /\ rows = pre[p].rows
           /\ history = pre[p].history

\* C6 witness: an insert whose INSERT statement had run raised; the IDENTITY
\* value is used up and the table is the one of before the call.
C6_Witness ==
    \E p \in Procs :
        /\ Finished(p, "insert")
        /\ frame[p].error = "insert_execute"
        /\ identity > 0
        /\ \A r \in rows : r.ID # identity

\* C7: a caller never has more than one connection open, and has none open
\* when its call has returned or raised.
C7_ConnectionsReleased ==
    \A p \in Procs :
        /\ conns[p] <= 1
        /\ pc[p] \in {"idle", "off"} => conns[p] = 0

\* C7 witness: an insert has opened three connections in turn (insert, read
\* of the source record, history insert), the last block raised, and none is
\* open after the call.
C7_Witness ==
    \E p \in Procs :
        /\ Finished(p, "insert")
        /\ frame[p].connects = 3
        /\ frame[p].error = "history_execute"
        /\ conns[p] = 0

\* C8: update on an id that has no record returns FALSE without raising
\* (the datastore not failing), changes no current record and adds no
\* History Record.
C8_UpdateMissingId ==
    \A p \in Procs :
        (/\ Finished(p, "update")
         /\ frame[p].error = "none"
         /\ \A r \in pre[p].rows : r.ID # frame[p].args.record_id)
        => /\ ~ret[p].raised
           /\ ret[p].val = FALSE
           /\ rows = pre[p].rows
           /\ history = pre[p].history

\* C8 witness: an UPDATE statement has run for an id without a record, while
\* another record exists, and update returned FALSE.
C8_Witness ==
    \E p \in Procs :
        /\ Finished(p, "update")
        /\ frame[p].error = "none"
        /\ frame[p].connects = 1
        /\ rows # {}
        /\ \A r \in pre[p].rows : r.ID # frame[p].args.record_id
        /\ ret[p].val = FALSE

C10_DeleteByFilters ==
    \A p \in Procs :
        Finished(p, "delete_by_filters") =>
            LET a == frame[p].args
                matching == {r \in pre[p].rows :
                               /\ a.object_id = None \/ r.object_id = a.object_id[1]
                               /\ a.field_id = None \/ r.field_id = a.field_id[1]
                               /\ a.set_id = None \/ r.set_id = a.set_id[1]}
            IN IF a.object_id = None /\ a.field_id = None /\ a.set_id = None
               THEN /\ ret[p].raised
                    /\ ret[p].val = "ValueError"
                    /\ frame[p].connects = 0
                    /\ rows = pre[p].rows
               ELSE ~ret[p].raised =>
                    /\ rows = pre[p].rows \ matching
                    /\ ret[p].val = Cardinality(matching)
                    /\ history = pre[p].history

\* C10 witness: delete_by_filters without a filter has raised on a table
\* that holds a record.
C10_Witness ==
    \E p \in Procs :
        /\ Finished(p, "delete_by_filters")
        /\ frame[p].args = NoArgs
        /\ ret[p].raised
        /\ rows # {}

(* ---------------------- construction of the store --------------------- *)

\* Values of the keys of the database section of the configuration file.
AuthMethods == {"sql", "SQL", "windows"}
Passwords == {"", "secret"}
HashIds == {"gAAAAB"}
TableNames == {"Annotations"}
HistoryTableNames == {"AnnotationHistory"}

\* The database section of a configuration file: each key present or not.
DatabaseConfigs ==
    [auth_method : Opt(AuthMethods), password : Opt(Passwords),
     default_hash_id : Opt(HashIds), table_name : Opt(TableNames),
     annotation_history_table : Opt(HistoryTableNames)]

\* dict.get(key, default) on an optional key.
Get(value, default) == IF value = None THEN default ELSE value[1]

\* str.lower() on the values of auth_method.
lower(text) == IF text = "SQL" THEN "sql" ELSE text

\* A function that returned val, and one that raised exc.
Returned(val) == [raised |-> FALSE, val |-> val]
Raised(exc) == [raised |-> TRUE, val |-> exc]

\* encrypt_password: refuses the empty password, else the Fernet token.
encrypt_password(plaintext) ==
    IF plaintext = ""
    THEN Raised("ValueError")
    ELSE Returned("gAAAAB")

\* _load_config without the check for a missing password.
load_config_any_password(file, writable) ==
    IF file = None
    THEN Raised("ValueError")
    ELSE Returned([config |-> [file[1] EXCEPT !.password = None], file |-> file])

\* _load_config: opens and parses the file; for SQL authentication migrates
\* a plaintext password to default_hash_id (rewriting the file when it can
\* be written), drops a plaintext password next to an encrypted one, and
\* raises when there is neither; every exception leaves as ValueError. The
\* value returned is self.config together with the file as it is left.
load_config(file, writable) ==
    IF file = None
    THEN Raised("ValueError")
    ELSE
        LET db_config == file[1]
            auth_method == lower(Get(db_config.auth_method, "sql"))
            has_plaintext == db_config.password # None
            has_encrypted == db_config.default_hash_id # None
        IN  IF auth_method # "sql"
            THEN Returned([config |-> db_config, file |-> file])
            ELSE IF has_plaintext /\ ~has_encrypted
            THEN LET encrypted_pwd == encrypt_password(db_config.password[1])
                     migrated == [db_config EXCEPT
                                     !.default_hash_id = Some(encrypted_pwd.val),
                                     !.password = None]
                 IN  IF encrypted_pwd.raised
                     THEN Raised("ValueError")
                     ELSE Returned([config |-> migrated,
                                    file |-> IF writable THEN Some(migrated)
                                             ELSE file])
            ELSE IF has_plaintext /\ has_encrypted
            THEN Returned([config |-> [db_config EXCEPT !.password = None],
                           file |-> file])
            ELSE IF ~has_plaintext /\ ~has_encrypted
            THEN Raised("ValueError")
            ELSE Returned([config |-> db_config, file |-> file])

\* AnnotationDBManager.__init__: loads the configuration, reads table_name
\* (a missing key raises KeyError) and annotation_history_table (a missing
\* key gives None). Only a constructor that returned leaves a store that
\* callers can use.
Construct ==
    /\ manager.state = "none"
    /\ \E writable \in BOOLEAN :
        LET loaded == load_config(config_file, writable)
        IN  IF loaded.raised
            THEN /\ manager' = [manager EXCEPT !.state = "failed",
                                               !.error = Some(loaded.val)]
                 /\ UNCHANGED <<config_file, history_table_name, pc>>
            ELSE IF loaded.val.config.table_name = None
            THEN /\ manager' = [manager EXCEPT !.state = "failed",
                                               !.config = Some(loaded.val.config),
                                               !.error = Some("KeyError")]
                 /\ config_file' = loaded.val.file
                 /\ UNCHANGED <<history_table_name, pc>>
            ELSE /\ manager' = [state |-> "constructed",
                                config |-> Some(loaded.val.config),
                                table_name |-> loaded.val.config.table_name,
                                error |-> None]
                 /\ config_file' = loaded.val.file
                 /\ history_table_name' =
                        loaded.val.config.annotation_history_table
                 /\ pc' = [p \in Procs |-> IF p = 1 THEN "idle" ELSE "off"]
    /\ UNCHANGED <<rows, identity, history, clock, frame, conns, ret, pre, calls,
                   call_args, returned>>

\* No store serves callers: empty tables, no caller admitted.
NoStore ==
    /\ rows = {}
    /\ identity = 0
    /\ history = <<>>
    /\ clock = 1
    /\ history_table_name = None
    /\ pc = [p \in Procs |-> "off"]
    /\ frame = [p \in Procs |-> NoFrame]
    /\ conns = [p \in Procs |-> 0]
    /\ ret = [p \in Procs |-> NoRet]
    /\ pre = [p \in Procs |-> [rows |-> {}, history |-> <<>>]]
    /\ calls = 0

\* No manager is being constructed.
NoManager ==
    /\ config_file = None
    /\ manager = [state |-> "none", config |-> None, table_name |-> None,
                  error |-> None]

\* A configuration file, readable or not, and no store yet.
InitConfig ==
    /\ config_file \in Opt(DatabaseConfigs)
    /\ manager = [state |-> "none", config |-> None, table_name |-> None,
                  error |-> None]
    /\ NoCall
    /\ NoStore

\* The steps of insert and of its save_to_history when nothing fails.
StepInsert(p) ==
    \/ Connect(p)
    \/ InsertExecute(p)
    \/ ReadExecute(p)
    \/ HistoryExecute(p)

\* The constructor runs once; the store it leaves serves inserts.
NextConfig ==
    \/ Construct
    \/ /\ manager.state = "constructed"
       /\ \E p \in Procs : (Ready(p) /\ CallInsert(p)) \/ StepInsert(p)
       /\ UNCHANGED <<config_file, manager, call_args, returned>>

SpecConfig == InitConfig /\ [][NextConfig]_vars

\* The configuration names its credentials: under SQL authentication (the
\* default) a non-empty plaintext password or an encrypted one.
HasCredentials(db_config) ==
    lower(Get(db_config.auth_method, "sql")) = "sql" =>
        \/ db_config.default_hash_id # None
        \/ db_config.password \in {Some(pw) : pw \in Passwords \ {""}}

\* The file can be read, names credentials and the primary table.
WellConfigured(file) ==
    /\ file # None
    /\ HasCredentials(file[1])
    /\ file[1].table_name # None

Whitespace == {" ", "\t"}
Punctuation == {",", ".", ":", ";", "-"}

\* Python values whose kinds the aligner's result tells apart.
PyNone == [type |-> "NoneType"]
PyList(items) == [type |-> "list", items |-> items]

Min2(a, b) == IF a <= b THEN a ELSE b
SetMin(S) == CHOOSE x \in S : \A y \in S : x <= y
SetMax(S) == CHOOSE x \in S : \A y \in S : y <= x

\* str.lstrip(chars), str.rstrip(chars) and str.strip(chars).
RECURSIVE lstrip(_, _)
lstrip(text, chars) ==
    IF text # <<>> /\ text[1] \in chars
    THEN lstrip(Tail(text), chars)
    ELSE text

RECURSIVE rstrip(_, _)
rstrip(text, chars) ==
    IF text # <<>> /\ text[Len(text)] \in chars
    THEN rstrip(SubSeq(text, 1, Len(text) - 1), chars)
    ELSE text

strip(text, chars) == rstrip(lstrip(text, chars), chars)

\* re.sub(r'\s+', ' ', text): every run of whitespace becomes one space.
RECURSIVE collapse_whitespace(_)
collapse_whitespace(text) ==
    IF text = <<>>
    THEN <<>>
    ELSE IF text[1] \in Whitespace
    THEN <<" ">> \o collapse_whitespace(lstrip(text, Whitespace))
    ELSE <<text[1]>> \o collapse_whitespace(Tail(text))

\* str.lower(), on the letters the inputs use in upper case.
lower_char(c) ==
    CASE c = "J" -> "j"
      [] c = "D" -> "d"
      [] OTHER -> c

RECURSIVE str_lower(_)
str_lower(text) ==
    IF text = <<>>
    THEN <<>>
    ELSE <<lower_char(text[1])>> \o str_lower(Tail(text))

\* normalize without the lowering.
normalize_keep_case(text, match_case) ==
    strip(strip(collapse_whitespace(text), Whitespace), Punctuation)

\* normalize: collapse whitespace, trim, lower unless match_case, then strip
\* the punctuation ,.:;- from both ends.
normalize(text, match_case) ==
    LET collapsed == collapse_whitespace(text)
        trimmed == strip(collapsed, Whitespace)
        cased == IF ~match_case THEN str_lower(trimmed) ELSE trimmed
    IN  strip(cased, Punctuation)

\* The tokens of one line paired with their boxes, up to the shorter of the
\* two lists; indices count from 0 as enumerate and range do.
line_tokens(line_idx, line_texts, line_boxes) ==
    LET length == Min2(Len(line_texts), Len(line_boxes))
    IN  IF length = 0
        THEN <<>>
        ELSE [t \in 1..length |->
                 [line_idx |-> line_idx - 1, token_idx |-> t - 1,
                  text |-> line_texts[t], box |-> line_boxes[t]]]

\* flattened_tokens: the lines zipped, in line then token order.
RECURSIVE flatten(_, _, _)
flatten(text_lines, box_lines, line) ==
    IF line > Min2(Len(text_lines), Len(box_lines))
    THEN <<>>
    ELSE line_tokens(line, text_lines[line], box_lines[line])
            \o flatten(text_lines, box_lines, line + 1)

\* How far past the target's length a window may grow before the scan of a
\* start index is abandoned.
MaxOverrun == 10

\* The inner loop over j from a start index i: the first j whose normalized
\* window equals the normalized target, or 0 when the window runs out of
\* tokens or overruns the target.
RECURSIVE match_end(_, _, _, _, _)
match_end(tokens, j, current_text, normalized_target, match_case) ==
    IF j > Len(tokens)
    THEN 0
    ELSE LET text == current_text \o tokens[j].text
             normalized_window == normalize(text, match_case)
         IN  IF normalized_window = normalized_target
             THEN j
             ELSE IF Len(normalized_window) > Len(normalized_target) + MaxOverrun
             THEN 0
             ELSE match_end(tokens, j + 1, text, normalized_target, match_case)

\* merged_box with the corners of token i alone.
merged_box_first_token(tokens, i, j) == Returned(tokens[i].box)

\* merged_box: min of x1 and y1, max of x2 and y2 over the boxes of tokens
\* i..j that have four coordinates; int(inf) raises when there is none.
merged_box(tokens, i, j) ==
    LET boxes == {tokens[k].box : k \in {k \in i..j : Len(tokens[k].box) = 4}}
    IN  IF boxes = {}
        THEN Raised("OverflowError")
        ELSE Returned(<<SetMin({box[1] : box \in boxes}),
                        SetMin({box[2] : box \in boxes}),
                        SetMax({box[3] : box \in boxes}),
                        SetMax({box[4] : box \in boxes})>>)

\* found_boxes.append in which the new box replaces the boxes found so far.
record_match_replacing(found_boxes, box) == <<box>>

\* found_boxes.append(merged_box).
record_match(found_boxes, box) == Append(found_boxes, box)

\* The outer loop over start indices with the test of the start token left out.
RECURSIVE scan_every_start(_, _, _, _, _, _)
scan_every_start(tokens, i, normalized_target, match_case, return_all, found_boxes) ==
    IF i > Len(tokens)
    THEN Returned(IF return_all THEN PyList(found_boxes) ELSE PyNone)
    ELSE LET j == match_end(tokens, i, <<>>, normalized_target, match_case)
             box == merged_box(tokens, i, j)
         IN  IF j = 0
             THEN scan_every_start(tokens, i + 1, normalized_target, match_case,
                                   return_all, found_boxes)
             ELSE IF box.raised
             THEN box
             ELSE IF return_all
             THEN scan_every_start(tokens, i + 1, normalized_target, match_case,
                                   return_all, record_match(found_boxes, box.val))
             ELSE Returned(PyList(box.val))

\* The outer loop over start indices i: a token that normalizes to the empty
\* string starts no window; the first match of a start index is merged and
\* either returned or appended, and the scan resumes at i + 1.
RECURSIVE scan_starts(_, _, _, _, _, _)
scan_starts(tokens, i, normalized_target, match_case, return_all, found_boxes) ==
    IF i > Len(tokens)
    THEN Returned(IF return_all THEN PyList(found_boxes) ELSE PyNone)
    ELSE LET j == IF normalize(tokens[i].text, match_case) = <<>>
                  THEN 0
                  ELSE match_end(tokens, i, <<>>, normalized_target, match_case)
             box == merged_box(tokens, i, j)
         IN  IF j = 0
             THEN scan_starts(tokens, i + 1, normalized_target, match_case,
                              return_all, found_boxes)
             ELSE IF box.raised
             THEN box
             ELSE IF return_all
             THEN scan_starts(tokens, i + 1, normalized_target, match_case,
                              return_all, record_match(found_boxes, box.val))
             ELSE Returned(PyList(box.val))

\* The flattened tokens of an OCR result; a missing key reads as [].
flattened_tokens(ocr_dict) ==
    flatten(Get(ocr_dict.text_word, <<>>), Get(ocr_dict.text_word_boxes, <<>>), 1)

\* find_target_bboxes with None for every miss.
find_target_bboxes_none(target, ocr_dict, match_case, return_all) ==
    LET found == scan_starts(flattened_tokens(ocr_dict), 1,
                             normalize(target, match_case), match_case,
                             return_all, <<>>)
    IN  IF found = Returned(PyList(<<>>)) THEN Returned(PyNone) ELSE found

\* DocumentProcessor.find_target_bboxes.
find_target_bboxes(target, ocr_dict, match_case, return_all) ==
    LET text_lines == Get(ocr_dict.text_word, <<>>)
        box_lines == Get(ocr_dict.text_word_boxes, <<>>)
        nothing == Returned(IF return_all THEN PyList(<<>>) ELSE PyNone)
        normalized_target == normalize(target, match_case)
    IN  IF text_lines = <<>> \/ box_lines = <<>>
        THEN nothing
        ELSE IF flattened_tokens(ocr_dict) = <<>>
        THEN nothing
        ELSE IF normalized_target = <<>>
        THEN nothing
        ELSE scan_starts(flattened_tokens(ocr_dict), 1, normalized_target,
                         match_case, return_all, <<>>)

\* Longest token stream of a page, longest stream whose boxes may have
\* reversed corners, and the lines and tokens per line of a ragged result.
MaxTokens == 3
MaxTurned == 2
MaxLines == 2
MaxLineTokens == 1

\* Token texts as the OCR engine gives them: words, a blank, a full stop.
John == <<"J", "o", "h", "n">>
Doe == <<"D", "o", "e">>
Lives == <<"l", "i", "v", "e", "s">>
Words == {John, Doe, Lives, <<" ">>, <<".">>}

\* Target values as the classifier gives them: "John Doe", the same with
\* noise (" john \t doe."), "John", "JohnDoe", and " ." which normalizes to
\* the empty string.
Targets ==
    {John \o <<" ">> \o Doe,
     <<" ", "j", "o", "h", "n", " ", "\t", " ", "d", "o", "e", ".">>,
     John,
     John \o Doe,
     <<" ", ".">>}

\* The box of the k-th token of a page, [x1, y1, x2, y2] with the top-left
\* corner first, and the same box with its corners reversed.
TokenBox(k) == <<10 * k, 2 * (k % 2), 10 * k + 8, 2 * (k % 2) + 5 + k>>
Reversed(box) == <<box[3], box[4], box[1], box[2]>>

\* The sequences over S of the lengths lo..hi.
SeqsOf(S, lo, hi) == UNION {[1..n -> S] : n \in lo..hi}

\* OCR results of one line whose boxes have their corners in order.
PageDicts ==
    {[text_word |-> Some(<<texts>>),
      text_word_boxes |-> Some(<<[k \in 1..Len(texts) |-> TokenBox(k)]>>)] :
        texts \in SeqsOf(Words, 0, MaxTokens)}

\* OCR results of one line in which any box may have its corners reversed.
TurnedDicts ==
    UNION {{[text_word |-> Some(<<texts>>),
             text_word_boxes |->
                 Some(<<[k \in 1..Len(texts) |->
                           IF turned[k] THEN Reversed(TokenBox(k))
                           ELSE TokenBox(k)]>>)] :
               turned \in [1..Len(texts) -> BOOLEAN]} :
           texts \in SeqsOf(Words, 1, MaxTurned)}

\* OCR results that lack a key, have no lines, or have lines whose texts and
\* boxes differ in number.
RaggedDicts ==
    {[text_word |-> text_word, text_word_boxes |-> text_word_boxes] :
        text_word \in Opt(SeqsOf(SeqsOf({John}, 0, MaxLineTokens), 0, MaxLines)),
        text_word_boxes \in
            Opt({[l \in 1..Len(counts) |->
                    [k \in 1..counts[l] |-> TokenBox(MaxLineTokens * (l - 1) + k)]] :
                 counts \in SeqsOf(0..MaxLineTokens, 0, MaxLines)})}

OcrDicts == PageDicts \cup TurnedDicts \cup RaggedDicts

\* A call of find_target_bboxes is about to run.
InitAlign ==
    /\ NoManager
    /\ NoStore
    /\ call_args \in {Some([fn |-> "find_target_bboxes", target |-> target,
                            ocr_dict |-> ocr_dict, match_case |-> match_case,
                            return_all |-> return_all]) :
                        target \in Targets, ocr_dict \in OcrDicts,
                        match_case \in BOOLEAN, return_all \in BOOLEAN}
    /\ returned = None

\* The call runs to its return or to the exception it raises.
FindTargetBboxes ==
    /\ call_args # None
    /\ call_args[1].fn = "find_target_bboxes"
    /\ returned = None
    /\ returned' = Some(find_target_bboxes(call_args[1].target, call_args[1].ocr_dict,
                                           call_args[1].match_case,
                                           call_args[1].return_all))
    /\ UNCHANGED <<storeVars, config_file, manager, call_args>>

NextAlign == FindTargetBboxes

SpecAlign == InitAlign /\ [][NextAlign]_vars

(* ----------------------- claims on the span aligner -------------------- *)

\* A call of find_target_bboxes has run; its arguments, its flattened
\* tokens, its normalized target and what it returned.
Aligned ==
    /\ call_args # None
    /\ call_args[1].fn = "find_target_bboxes"
    /\ returned # None

AlignTokens == flattened_tokens(call_args[1].ocr_dict)
AlignTarget == normalize(call_args[1].target, call_args[1].match_case)

\* The raw texts of tokens i..j joined with no separator.
RECURSIVE WindowText(_, _, _)
WindowText(tokens, i, j) ==
    IF i > j THEN <<>> ELSE tokens[i].text \o WindowText(tokens, i + 1, j)

\* Window i..j matches: its normalized text is the normalized target.
WindowMatches(i, j) ==
    /\ AlignTarget # <<>>
    /\ normalize(WindowText(AlignTokens, i, j), call_args[1].match_case) = AlignTarget

\* The end indices of the matching windows that start at i.
MatchEnds(i) == {j \in i..Len(AlignTokens) : WindowMatches(i, j)}

\* The start indices that have a matching window, and those among them whose
\* own token does not normalize to the empty string.
MatchStarts == {i \in 1..Len(AlignTokens) : MatchEnds(i) # {}}
ScannedStarts ==
    {i \in MatchStarts :
        normalize(AlignTokens[i].text, call_args[1].match_case) # <<>>}

\* The smallest rectangle over the corners of tokens i..j.
UnionBox(i, j) ==
    <<SetMin({AlignTokens[k].box[1] : k \in i..j}),
      SetMin({AlignTokens[k].box[2] : k \in i..j}),
      SetMax({AlignTokens[k].box[3] : k \in i..j}),
      SetMax({AlignTokens[k].box[4] : k \in i..j})>>

\* The box of the shortest matching window that starts at i.
FirstMatchBox(i) == UnionBox(i, SetMin(MatchEnds(i)))

\* The boxes of the shortest matching windows of the starts in S, by start.
RECURSIVE BoxesOf(_)
BoxesOf(S) ==
    IF S = {} THEN <<>>
    ELSE <<FirstMatchBox(SetMin(S))>> \o BoxesOf(S \ {SetMin(S)})

\* str.split(): the words of a text, separated by runs of whitespace.
RECURSIVE first_word(_)
first_word(text) ==
    IF text = <<>> \/ text[1] \in Whitespace
    THEN <<>>
    ELSE <<text[1]>> \o first_word(Tail(text))

RECURSIVE split(_)
split(text) ==
    LET rest == lstrip(text, Whitespace)
        word == first_word(rest)
    IN  IF rest = <<>> THEN <<>>
        ELSE <<word>> \o split(SubSeq(rest, Len(word) + 1, Len(rest)))

\* The windows i..j whose token texts are, one by one, the words of the target.
WordWindows ==
    {w \in (1..Len(AlignTokens)) \X (1..Len(AlignTokens)) :
        /\ w[1] <= w[2]
        /\ [k \in 1..(w[2] - w[1] + 1) |-> AlignTokens[w[1] + k - 1].text]
              = split(call_args[1].target)}

\* C12 as stated: when the target has several words and they are the texts
\* of consecutive tokens i..j, find_target_bboxes with return_all = FALSE
\* returns the union box of exactly tokens i..j (of the first such window).
C12_MultiWordTargetFound ==
    (Aligned /\ ~call_args[1].return_all /\ Len(split(call_args[1].target)) > 1) =>
        \A w \in WordWindows :
            (\A v \in WordWindows : w[1] <= v[1]) =>
                returned[1] = Returned(PyList(UnionBox(w[1], w[2])))

\* What a call that found nothing returns.
Miss == Returned(IF call_args[1].return_all THEN PyList(<<>>) ELSE PyNone)

\* C13 as stated: with return_all = FALSE the call returns the box of the
\* smallest start index that has a matching window, with the smallest
\* matching end index for that start, and nothing when no start has one.
C13_FirstMatchOfAnyStart ==
    (Aligned /\ ~call_args[1].return_all) =>
        returned[1] = IF MatchStarts = {} THEN Miss
                      ELSE Returned(PyList(FirstMatchBox(SetMin(MatchStarts))))

\* C13 as amended: the same over the start indices whose own token does not
\* normalize to the empty string; a blank or punctuation token starts no
\* window, though a window that starts there may match.
C13_FirstMatchOfScannedStart ==
    (Aligned /\ ~call_args[1].return_all) =>
        returned[1] = IF ScannedStarts = {} THEN Miss
                      ELSE Returned(PyList(FirstMatchBox(SetMin(ScannedStarts))))

\* C13 witness: two start indices match, the first of them with two matching
\* end indices, and the call returned the box of the first start and its
\* first end, which leaves out the token after it.
C13_Witness ==
    /\ Aligned /\ ~call_args[1].return_all
    /\ Cardinality(ScannedStarts) > 1
    /\ Cardinality(MatchEnds(SetMin(ScannedStarts))) > 1
    /\ returned[1] = Returned(PyList(FirstMatchBox(SetMin(ScannedStarts))))
    /\ returned[1].val.items[3] < AlignTokens[SetMin(ScannedStarts) + 1].box[1]

\* C14 as stated: with return_all = TRUE the call returns, in increasing
\* order of start index, one box for every start index that has a matching
\* window (its shortest), at most one box per token, and the empty list when
\* nothing matches.
C14_AllMatchesOfAnyStart ==
    (Aligned /\ call_args[1].return_all) =>
        /\ returned[1] = Returned(PyList(BoxesOf(MatchStarts)))
        /\ Len(returned[1].val.items) <= Len(AlignTokens)

\* C14 as amended: the same over the start indices whose own token does not
\* normalize to the empty string.
C14_AllMatchesOfScannedStart ==
    (Aligned /\ call_args[1].return_all) =>
        /\ returned[1] = Returned(PyList(BoxesOf(ScannedStarts)))
        /\ Len(returned[1].val.items) <= Len(AlignTokens)
        /\ ScannedStarts = {} => returned[1] = Returned(PyList(<<>>))

\* C14 witness: the same value at two positions, each reported, in order.
C14_Witness ==
    /\ Aligned /\ call_args[1].return_all
    /\ Cardinality(ScannedStarts) = 2
    /\ Len(returned[1].val.items) = 2
    /\ returned[1].val.items[1][1] < returned[1].val.items[2][1]

\* The boxes a call returned: one, several or none.
ReturnedBoxes ==
    IF returned[1].raised \/ returned[1].val = PyNone THEN {}
    ELSE IF call_args[1].return_all
    THEN {returned[1].val.items[n] : n \in 1..Len(returned[1].val.items)}
    ELSE {returned[1].val.items}

\* The corners of a box are in order.
Ordered(box) == box[1] <= box[3] /\ box[2] <= box[4]

C16_MissIsAValue ==
    (/\ Aligned
     /\ \/ AlignTokens = <<>>
        \/ AlignTarget = <<>>
        \/ \A i \in 1..Len(AlignTokens), j \in 1..Len(AlignTokens) :
              i <= j => normalize(WindowText(AlignTokens, i, j),
                                  call_args[1].match_case) # AlignTarget)
    => returned[1] = Miss

\* C16 witness: tokens and a target that normalize to text, no window equal
\* to the target, and the empty list returned.
C16_Witness ==
    /\ Aligned /\ call_args[1].return_all
    /\ Len(AlignTokens) > 1
    /\ AlignTarget # <<>>
    /\ MatchStarts = {}
    /\ returned[1] = Returned(PyList(<<>>))

(* ----------------------- the coordinate converter ---------------------- *)

\* A float that is the quotient of two integers, kept exact and in lowest
\* terms: <<numerator, denominator>> with a positive denominator.
RECURSIVE GCD(_, _)
GCD(a, b) == IF b = 0 THEN a ELSE GCD(b, a % b)

Abs(n) == IF n < 0 THEN -n ELSE n

Frac(n, d) ==
    LET g == GCD(Abs(n), d)
    IN  <<n \div g, d \div g>>

Zero == Frac(0, 1)
One == Frac(1, 1)

\* a < b, a <= b and a + b on such floats.
Less(a, b) == a[1] * b[2] < b[1] * a[2]
LessEq(a, b) == a[1] * b[2] <= b[1] * a[2]
Plus(a, b) == Frac(a[1] * b[2] + b[1] * a[2], a[2] * b[2])

\* The clamp that lets every value through.
clamp_nothing(value) == value

\* max(0.0, min(1.0, value)).
clamp(value) ==
    LET upper == IF Less(value, One) THEN value ELSE One
    IN  IF Less(Zero, upper) THEN upper ELSE Zero

\* pixel_bbox_to_normalized without the reordering of the corners.
pixel_bbox_to_normalized_as_given(bbox_pixels, page_width, page_height) ==
    IF Len(bbox_pixels) # 4 \/ page_width <= 0 \/ page_height <= 0
    THEN Raised("ValueError")
    ELSE Returned(<<clamp(Frac(bbox_pixels[1], page_width)),
                    clamp(Frac(bbox_pixels[2], page_height)),
                    clamp(Frac(bbox_pixels[3] - bbox_pixels[1], page_width)),
                    clamp(Frac(bbox_pixels[4] - bbox_pixels[2], page_height))>>)

\* pixel_bbox_to_normalized: ValueError for a box that has not 4 coordinates
\* or a page dimension that is not positive; else the corners are put in
\* order, divided by the page size and clamped.
pixel_bbox_to_normalized(bbox_pixels, page_width, page_height) ==
    IF Len(bbox_pixels) # 4
    THEN Raised("ValueError")
    ELSE IF page_width <= 0 \/ page_height <= 0
    THEN Raised("ValueError")
    ELSE
        LET x1 == IF bbox_pixels[3] < bbox_pixels[1] THEN bbox_pixels[3]
                  ELSE bbox_pixels[1]
            x2 == IF bbox_pixels[3] < bbox_pixels[1] THEN bbox_pixels[1]
                  ELSE bbox_pixels[3]
            y1 == IF bbox_pixels[4] < bbox_pixels[2] THEN bbox_pixels[4]
                  ELSE bbox_pixels[2]
            y2 == IF bbox_pixels[4] < bbox_pixels[2] THEN bbox_pixels[2]
                  ELSE bbox_pixels[4]
            left == Frac(x1, page_width)
            top == Frac(y1, page_height)
            width == Frac(x2 - x1, page_width)
            height == Frac(y2 - y1, page_height)
        IN  Returned(<<clamp(left), clamp(top), clamp(width), clamp(height)>>)

\* validate_normalized_coords that also rejects a box touching the right or
\* bottom edge of the page.
validate_normalized_coords_inside(left, top, width, height) ==
    /\ LessEq(Zero, left) /\ LessEq(left, One)
    /\ LessEq(Zero, top) /\ LessEq(top, One)
    /\ LessEq(Zero, width) /\ LessEq(width, One)
    /\ LessEq(Zero, height) /\ LessEq(height, One)
    /\ Less(Plus(left, width), One)
    /\ Less(Plus(top, height), One)
    /\ Less(Zero, width) /\ Less(Zero, height)

\* validate_normalized_coords: the checks in the order of the code.
validate_normalized_coords(left, top, width, height) ==
    IF ~(LessEq(Zero, left) /\ LessEq(left, One)
         /\ LessEq(Zero, top) /\ LessEq(top, One))
    THEN FALSE
    ELSE IF ~(LessEq(Zero, width) /\ LessEq(width, One)
              /\ LessEq(Zero, height) /\ LessEq(height, One))
    THEN FALSE
    ELSE IF Less(One, Plus(left, width))
    THEN FALSE
    ELSE IF Less(One, Plus(top, height))
    THEN FALSE
    ELSE IF LessEq(width, Zero) \/ LessEq(height, Zero)
    THEN FALSE
    ELSE TRUE

\* convert_multiple_bboxes that gives up at the first box it cannot convert.
RECURSIVE convert_until_failure(_, _, _)
convert_until_failure(bboxes, page_width, page_height) ==
    IF bboxes = <<>>
    THEN <<>>
    ELSE LET normalized == pixel_bbox_to_normalized(Head(bboxes), page_width,
                                                    page_height)
         IN  IF normalized.raised
             THEN <<>>
             ELSE IF validate_normalized_coords(normalized.val[1], normalized.val[2],
                                                normalized.val[3], normalized.val[4])
             THEN <<normalized.val>>
                     \o convert_until_failure(Tail(bboxes), page_width, page_height)
             ELSE <<>>

\* convert_multiple_bboxes: each box is normalized inside try/except and
\* appended when it validates; a box that raises or does not validate is
\* reported and left out.
RECURSIVE convert_multiple_bboxes(_, _, _)
convert_multiple_bboxes(bboxes, page_width, page_height) ==
    IF bboxes = <<>>
    THEN <<>>
    ELSE LET normalized == pixel_bbox_to_normalized(Head(bboxes), page_width,
                                                    page_height)
             normalized_boxes == convert_multiple_bboxes(Tail(bboxes), page_width,
                                                         page_height)
         IN  IF normalized.raised
             THEN normalized_boxes
             ELSE IF validate_normalized_coords(normalized.val[1], normalized.val[2],
                                                normalized.val[3], normalized.val[4])
             THEN <<normalized.val>> \o normalized_boxes
             ELSE normalized_boxes

\* Largest pixel coordinate and page dimension, the grid of the values given
\* to validate (multiples of 1/Grid), and the longest batch.
MaxPixel == 3
MaxPage == 2
Grid == 4
MaxBatch == 3

Pixels == (-1)..MaxPixel
PageSizes == (-1)..MaxPage

\* Boxes of four coordinates, and lists that are no box.
PixelBoxes == [1..4 -> Pixels] \cup {<<>>, <<0, 0, 1>>, <<0, 0, 1, 1, 1>>}

\* Values at, below, inside and above the range [0, 1].
GridValues == {Frac(k, Grid) : k \in (-1)..(Grid + 1)}

\* The boxes of a batch: in order, reversed, without width, wider than the
\* page, and short of a coordinate.
BatchBoxes == {<<0, 0, 1, 1>>, <<2, 2, 1, 1>>, <<1, 0, 1, 2>>, <<0, 0, 3, 1>>,
               <<0, 0, 1>>}

\* A call of one of the three functions is about to run.
InitConvert ==
    /\ NoManager
    /\ NoStore
    /\ call_args \in
          {Some([fn |-> "pixel_bbox_to_normalized", bbox_pixels |-> bbox_pixels,
                 page_width |-> page_width, page_height |-> page_height]) :
              bbox_pixels \in PixelBoxes, page_width \in PageSizes,
              page_height \in PageSizes}
          \cup
          {Some([fn |-> "validate_normalized_coords", left |-> left, top |-> top,
                 width |-> width, height |-> height]) :
              left \in GridValues, top \in GridValues, width \in GridValues,
              height \in GridValues}
          \cup
          {Some([fn |-> "convert_multiple_bboxes", bboxes |-> bboxes,
                 page_width |-> page_width, page_height |-> page_height]) :
              bboxes \in SeqsOf(BatchBoxes, 0, MaxBatch), page_width \in PageSizes,
              page_height \in PageSizes}
    /\ returned = None

PixelBboxToNormalized ==
    /\ call_args # None
    /\ call_args[1].fn = "pixel_bbox_to_normalized"
    /\ returned = None
    /\ returned' = Some(pixel_bbox_to_normalized(call_args[1].bbox_pixels,
                                                 call_args[1].page_width,
                                                 call_args[1].page_height))
    /\ UNCHANGED <<storeVars, config_file, manager, call_args>>

ValidateNormalizedCoords ==
    /\ call_args # None
    /\ call_args[1].fn = "validate_normalized_coords"
    /\ returned = None
    /\ returned' = Some(Returned(validate_normalized_coords(
                            call_args[1].left, call_args[1].top,
                            call_args[1].width, call_args[1].height)))
    /\ UNCHANGED <<storeVars, config_file, manager, call_args>>

ConvertMultipleBboxes ==
    /\ call_args # None
    /\ call_args[1].fn = "convert_multiple_bboxes"
    /\ returned = None
    /\ returned' = Some(Returned(convert_multiple_bboxes(
                            call_args[1].bboxes, call_args[1].page_width,
                            call_args[1].page_height)))
    /\ UNCHANGED <<storeVars, config_file, manager, call_args>>

NextConvert ==
    \/ PixelBboxToNormalized
    \/ ValidateNormalizedCoords
    \/ ConvertMultipleBboxes

SpecConvert == InitConvert /\ [][NextConvert]_vars

(* -------------------- claims on the coordinate converter --------------- *)

\* A call of the named function has run.
Ran(fn) ==
    /\ call_args # None
    /\ call_args[1].fn = fn
    /\ returned # None

\* A box with its x corners, its y corners, or both exchanged.
SwapX(box) == <<box[3], box[2], box[1], box[4]>>
SwapY(box) == <<box[1], box[4], box[3], box[2]>>

\* The call has normalized a box of four coordinates on a page of positive size.
NormalizedABox ==
    /\ Ran("pixel_bbox_to_normalized")
    /\ Len(call_args[1].bbox_pixels) = 4
    /\ call_args[1].page_width > 0
    /\ call_args[1].page_height > 0

\* C17: for every pixel box and every positive page size, the rectangle
\* returned for the box is the rectangle returned for the same box with
\* x1, x2 exchanged, with y1, y2 exchanged, and with both exchanged.
C17_OrientationIndependent ==
    NormalizedABox =>
        LET box == call_args[1].bbox_pixels
            w == call_args[1].page_width
            h == call_args[1].page_height
        IN  /\ ~returned[1].raised
            /\ returned[1] = pixel_bbox_to_normalized(SwapX(box), w, h)
            /\ returned[1] = pixel_bbox_to_normalized(SwapY(box), w, h)
            /\ returned[1] = pixel_bbox_to_normalized(SwapX(SwapY(box)), w, h)

\* C17 witness: a box given with both pairs of corners reversed, inside the
\* page, has been normalized to a rectangle of positive width and height
\* whose left edge is the smaller x.
C17_Witness ==
    /\ NormalizedABox
    /\ call_args[1].bbox_pixels[3] < call_args[1].bbox_pixels[1]
    /\ call_args[1].bbox_pixels[4] < call_args[1].bbox_pixels[2]
    /\ call_args[1].bbox_pixels[3] > 0
    /\ call_args[1].bbox_pixels[1] <= call_args[1].page_width
    /\ returned[1].val[1] = Frac(call_args[1].bbox_pixels[3], call_args[1].page_width)
    /\ Less(Zero, returned[1].val[3])
    /\ Less(Zero, returned[1].val[4])

\* A value lies in [0, 1].
InUnit(value) == LessEq(Zero, value) /\ LessEq(value, One)

\* C18: validate returns TRUE exactly when left, top, width and height lie in
\* [0, 1], left + width <= 1, top + height <= 1, width > 0 and height > 0.
C18_ValidateExactly ==
    Ran("validate_normalized_coords") =>
        LET a == call_args[1]
        IN  returned[1] = Returned(
                /\ InUnit(a.left) /\ InUnit(a.top)
                /\ InUnit(a.width) /\ InUnit(a.height)
                /\ LessEq(Plus(a.left, a.width), One)
                /\ LessEq(Plus(a.top, a.height), One)
                /\ Less(Zero, a.width)
                /\ Less(Zero, a.height))

\* C18 witness: a rectangle strictly inside the unit square, with positive
\* width and height, has been found valid.
C18_Witness ==
    /\ Ran("validate_normalized_coords")
    /\ Less(Zero, call_args[1].left) /\ Less(Zero, call_args[1].top)
    /\ Less(Zero, call_args[1].width) /\ Less(Zero, call_args[1].height)
    /\ Less(Plus(call_args[1].left, call_args[1].width), One)
    /\ Less(Plus(call_args[1].top, call_args[1].height), One)
    /\ returned[1] = Returned(TRUE)

\* C19: normalize raises the geometry error (ValueError) exactly when the box
\* has not 4 coordinates or page_width <= 0 or page_height <= 0; otherwise it
\* returns four values, each in [0, 1].
C19_GeometryErrorExactly ==
    Ran("pixel_bbox_to_normalized") =>
        LET a == call_args[1]
            bad == \/ Len(a.bbox_pixels) # 4
                   \/ a.page_width <= 0
                   \/ a.page_height <= 0
        IN  /\ returned[1].raised <=> bad
            /\ returned[1].raised => returned[1].val = "ValueError"
            /\ ~returned[1].raised =>
                  /\ Len(returned[1].val) = 4
                  /\ \A n \in 1..4 : InUnit(returned[1].val[n])

\* C19 witness: a box that starts left of the page and ends right of it has
\* been normalized to left 0 and width 1.
C19_Witness ==
    /\ NormalizedABox
    /\ call_args[1].bbox_pixels[1] < 0
    /\ call_args[1].bbox_pixels[3] > call_args[1].page_width
    /\ returned[1].val[1] = Zero
    /\ returned[1].val[3] = One

\* The rectangles of the boxes of a batch that normalize without an error
\* and pass validate, in the order of the batch.
RECURSIVE ValidRects(_, _, _)
ValidRects(bboxes, w, h) ==
    IF bboxes = <<>> THEN <<>>
    ELSE LET r == pixel_bbox_to_normalized(Head(bboxes), w, h)
             keep == /\ ~r.raised
                     /\ validate_normalized_coords(r.val[1], r.val[2], r.val[3],
                                                   r.val[4])
         IN  (IF keep THEN <<r.val>> ELSE <<>>) \o ValidRects(Tail(bboxes), w, h)

\* C20: convert_many does not raise and returns, in input order, the
\* normalized rectangle of exactly the boxes that normalize without a
\* geometry error and pass validate; a skipped box does not affect the boxes
\* after it.
C20_PartialResults ==
    Ran("convert_multiple_bboxes") =>
        LET a == call_args[1]
        IN  /\ ~returned[1].raised
            /\ returned[1].val = ValidRects(a.bboxes, a.page_width, a.page_height)
            /\ \A n \in 1..Len(a.bboxes) :
                  ValidRects(SubSeq(a.bboxes, n, Len(a.bboxes)), a.page_width,
                             a.page_height)
                    = SubSeq(returned[1].val,
                             Len(ValidRects(SubSeq(a.bboxes, 1, n - 1), a.page_width,
                                            a.page_height)) + 1,
                             Len(returned[1].val))

\* C20 witness: of a batch of three boxes the second, short of a coordinate,
\* was skipped, and the first and third were returned in that order.
C20_Witness ==
    /\ Ran("convert_multiple_bboxes")
    /\ Len(call_args[1].bboxes) = 3
    /\ Len(call_args[1].bboxes[2]) # 4
    /\ Len(returned[1].val) = 2
    /\ returned[1].val[1] # returned[1].val[2]
    /\ Returned(returned[1].val[2])
          = pixel_bbox_to_normalized(call_args[1].bboxes[3], call_args[1].page_width,
                                     call_args[1].page_height)

(* --------------------------- annotation builder ------------------------ *)

\* A Python tuple, as PyList is a Python list.
PyTuple(items) == [type |-> "tuple", items |-> items]

\* str.upper() on the letters of the alphabet; other characters are kept.
upper_char(c) ==
    CASE c = "a" -> "A"
      [] c = "b" -> "B"
      [] c = "c" -> "C"
      [] c = "d" -> "D"
      [] c = "e" -> "E"
      [] c = "f" -> "F"
      [] c = "g" -> "G"
      [] c = "h" -> "H"
      [] c = "i" -> "I"
      [] c = "j" -> "J"
      [] c = "k" -> "K"
      [] c = "l" -> "L"
      [] c = "m" -> "M"
      [] c = "n" -> "N"
      [] c = "o" -> "O"
      [] c = "p" -> "P"
      [] c = "q" -> "Q"
      [] c = "r" -> "R"
      [] c = "s" -> "S"
      [] c = "t" -> "T"
      [] c = "u" -> "U"
      [] c = "v" -> "V"
      [] c = "w" -> "W"
      [] c = "x" -> "X"
      [] c = "y" -> "Y"
      [] c = "z" -> "Z"
      [] OTHER -> c

RECURSIVE str_upper(_)
str_upper(text) ==
    IF text = <<>>
    THEN <<>>
    ELSE <<upper_char(text[1])>> \o str_upper(Tail(text))

\* str.replace(old, new) for a pattern of one character.
RECURSIVE replace(_, _, _)
replace(text, old, new) ==
    IF text = <<>>
    THEN <<>>
    ELSE <<IF text[1] = old THEN new ELSE text[1]>> \o replace(Tail(text), old, new)

\* The class attribute ENTITY_TYPE_MAP.
ENTITY_TYPE_MAP ==
    (<<"S", "S", "N">>
          :> <<"S", "S", "N">>)
    @@ (<<"S", "O", "C", "I", "A", "L", "_", "S", "E", "C", "U", "R", "I", "T", "Y", "_", "N", "U", "M", "B", "E", "R">>
          :> <<"S", "S", "N">>)
    @@ (<<"P", "H", "O", "N", "E">>
          :> <<"P", "H", "O", "N", "E">>)
    @@ (<<"P", "H", "O", "N", "E", "_", "N", "U", "M", "B", "E", "R">>
          :> <<"P", "H", "O", "N", "E">>)
    @@ (<<"E", "M", "A", "I", "L">>
          :> <<"E", "M", "A", "I", "L">>)
    @@ (<<"E", "M", "A", "I", "L", "_", "A", "D", "D", "R", "E", "S", "S">>
          :> <<"E", "M", "A", "I", "L">>)
    @@ (<<"N", "A", "M", "E">>
          :> <<"N", "A", "M", "E">>)
    @@ (<<"P", "E", "R", "S", "O", "N">>
          :> <<"N", "A", "M", "E">>)
    @@ (<<"A", "D", "D", "R", "E", "S", "S">>
          :> <<"A", "D", "D", "R", "E", "S", "S">>)
    @@ (<<"L", "O", "C", "A", "T", "I", "O", "N">>
          :> <<"A", "D", "D", "R", "E", "S", "S">>)
    @@ (<<"D", "A", "T", "E", "_", "O", "F", "_", "B", "I", "R", "T", "H">>
          :> <<"D", "O", "B">>)
    @@ (<<"D", "O", "B">>
          :> <<"D", "O", "B">>)
    @@ (<<"C", "R", "E", "D", "I", "T", "_", "C", "A", "R", "D">>
          :> <<"C", "R", "E", "D", "I", "T", "_", "C", "A", "R", "D">>)
    @@ (<<"B", "A", "N", "K", "_", "A", "C", "C", "O", "U", "N", "T">>
          :> <<"B", "A", "N", "K", "_", "A", "C", "C", "O", "U", "N", "T">>)
    @@ (<<"D", "R", "I", "V", "E", "R", "S", "_", "L", "I", "C", "E", "N", "S", "E">>
          :> <<"D", "R", "I", "V", "E", "R", "S", "_", "L", "I", "C", "E", "N", "S", "E">>)
    @@ (<<"P", "A", "S", "S", "P", "O", "R", "T">>
          :> <<"P", "A", "S", "S", "P", "O", "R", "T">>)

\* normalize_entity_type: upper case, spaces to underscores, then the mapped
\* tag, or the text itself when the map has no such key.
normalize_entity_type(entity_type) ==
    LET entity_type_upper == replace(str_upper(entity_type), " ", "_")
    IN  IF entity_type_upper \in DOMAIN ENTITY_TYPE_MAP
        THEN ENTITY_TYPE_MAP[entity_type_upper]
        ELSE entity_type_upper

\* The text a detection of the given type is masked by.
masked(normalized_type) == <<"*", "*", "*">> \o normalized_type \o <<"*", "*", "*">>

\* The creator name a builder is constructed with by default.
creator_name == "pii_detector"

\* create_pii_annotation that keeps the literal value whatever the flag says.
create_pii_annotation_literal(entity_type, entity_value, normalized_coords, confidence, page_level_id, order, mask_value, timestamp) ==
    IF normalized_coords = PyNone
    THEN Raised("TypeError")
    ELSE IF Len(normalized_coords.items) # 4
    THEN Raised("ValueError")
    ELSE Returned([eType |-> "annotRedaction",
                   dXPos |-> normalized_coords.items[1], dYPos |-> normalized_coords.items[2],
                   dWidth |-> normalized_coords.items[3], dHeight |-> normalized_coords.items[4],
                   sFillColour |-> "#000000", sLineColour |-> "#000000",
                   dFillOpacity |-> One, dLineOpacity |-> One,
                   sReasonCategory |-> normalize_entity_type(entity_type),
                   sFoundValue |-> entity_value,
                   sCreatedBy |-> creator_name, sTimeCreated |-> timestamp,
                   sModifiedBy |-> creator_name, sModifiedTime |-> timestamp,
                   eSource |-> "massActionCreated",
                   iPageLevelID |-> page_level_id,
                   iOrder |-> Get(order, page_level_id),
                   iConfidence |-> confidence])

\* create_pii_annotation that takes the opacity of the mark from the
\* confidence of the detection.
create_pii_annotation_faded(entity_type, entity_value, normalized_coords, confidence, page_level_id, order, mask_value, timestamp) ==
    IF normalized_coords = PyNone
    THEN Raised("TypeError")
    ELSE IF Len(normalized_coords.items) # 4
    THEN Raised("ValueError")
    ELSE Returned([eType |-> "annotRedaction",
                   dXPos |-> normalized_coords.items[1], dYPos |-> normalized_coords.items[2],
                   dWidth |-> normalized_coords.items[3], dHeight |-> normalized_coords.items[4],
                   sFillColour |-> "#000000", sLineColour |-> "#000000",
                   dFillOpacity |-> Frac(confidence, 100), dLineOpacity |-> One,
                   sReasonCategory |-> normalize_entity_type(entity_type),
                   sFoundValue |-> IF mask_value
                                   THEN masked(normalize_entity_type(entity_type))
                                   ELSE entity_value,
                   sCreatedBy |-> creator_name, sTimeCreated |-> timestamp,
                   sModifiedBy |-> creator_name, sModifiedTime |-> timestamp,
                   eSource |-> "massActionCreated",
                   iPageLevelID |-> page_level_id,
                   iOrder |-> Get(order, page_level_id),
                   iConfidence |-> confidence])

\* create_pii_annotation: unpacks the four coordinates, normalizes the type,
\* masks the value if asked to, defaults the order to the page level id, and
\* stamps the reading of the clock on a redaction mark of fixed appearance.
\* timestamp is the reading datetime.utcnow() returns during the call.
create_pii_annotation(entity_type, entity_value, normalized_coords, confidence, page_level_id, order, mask_value, timestamp) ==
    IF normalized_coords = PyNone
    THEN Raised("TypeError")
    ELSE IF Len(normalized_coords.items) # 4
    THEN Raised("ValueError")
    ELSE LET left == normalized_coords.items[1]
             top == normalized_coords.items[2]
             width == normalized_coords.items[3]
             height == normalized_coords.items[4]
             normalized_type == normalize_entity_type(entity_type)
             found_value == IF mask_value
                            THEN masked(normalized_type)
                            ELSE entity_value
         IN  Returned([eType |-> "annotRedaction",
                       dXPos |-> left, dYPos |-> top,
                       dWidth |-> width, dHeight |-> height,
                       sFillColour |-> "#000000", sLineColour |-> "#000000",
                       dFillOpacity |-> One, dLineOpacity |-> One,
                       sReasonCategory |-> normalized_type,
                       sFoundValue |-> found_value,
                       sCreatedBy |-> creator_name, sTimeCreated |-> timestamp,
                       sModifiedBy |-> creator_name, sModifiedTime |-> timestamp,
                       eSource |-> "massActionCreated",
                       iPageLevelID |-> page_level_id,
                       iOrder |-> Get(order, page_level_id),
                       iConfidence |-> confidence])

\* create_annotation_data: the page of the given annotations.
create_annotation_data(annotations, page_number) ==
    [aAnnots |-> annotations,
     iPageLevelIDCount |-> Len(annotations),
     lPageNumber |-> page_number]

\* The fields of an Annotation the builder sets, with their wire types.
AnnotationFields ==
    <<<<"eType", "i32">>, <<"dXPos", "dbl">>, <<"dYPos", "dbl">>,
      <<"dWidth", "dbl">>, <<"dHeight", "dbl">>, <<"sFillColour", "str">>,
      <<"sLineColour", "str">>, <<"dFillOpacity", "dbl">>,
      <<"dLineOpacity", "dbl">>, <<"sReasonCategory", "str">>,
      <<"sFoundValue", "str">>, <<"sCreatedBy", "str">>,
      <<"sTimeCreated", "str">>, <<"sModifiedBy", "str">>,
      <<"sModifiedTime", "str">>, <<"eSource", "i32">>,
      <<"iPageLevelID", "i32">>, <<"iOrder", "i32">>, <<"iConfidence", "i32">>>>

\* One field on the wire: its name in the schema, its wire type, its value.
WireField(field, ttype, val) == [field |-> field, ttype |-> ttype, val |-> val]

\* Annotation.write: the fields of the annotation in schema order.
write_annotation(annotation) ==
    [k \in 1..Len(AnnotationFields) |->
        WireField(AnnotationFields[k][1], AnnotationFields[k][2],
                  annotation[AnnotationFields[k][1]])]

\* AnnotationData.write: the list of annotations, the count, the page number.
write(annot_data) ==
    <<WireField("aAnnots", "lst",
                [k \in 1..Len(annot_data.aAnnots) |->
                    write_annotation(annot_data.aAnnots[k])]),
      WireField("iPageLevelIDCount", "i32", annot_data.iPageLevelIDCount),
      WireField("lPageNumber", "i64", annot_data.lPageNumber)>>

\* The fields of the given name among the fields read from the wire.
FieldsNamed(fields, name) == {k \in 1..Len(fields) : fields[k].field = name}

\* The value read for a field, which the wire holds once with the type of
\* the schema.
FieldValue(fields, name) == fields[CHOOSE k \in FieldsNamed(fields, name) : TRUE].val

\* The wire holds every field of the list once, typed as the schema types it.
WellTyped(fields, schema) ==
    /\ Len(fields) = Len(schema)
    /\ \A k \in 1..Len(schema) :
          \E n \in 1..Len(fields) :
              /\ FieldsNamed(fields, schema[k][1]) = {n}
              /\ fields[n].ttype = schema[k][2]

\* Annotation.read: the annotation of the fields on the wire.
read_annotation(fields) ==
    [eType |-> FieldValue(fields, "eType"),
     dXPos |-> FieldValue(fields, "dXPos"),
     dYPos |-> FieldValue(fields, "dYPos"),
     dWidth |-> FieldValue(fields, "dWidth"),
     dHeight |-> FieldValue(fields, "dHeight"),
     sFillColour |-> FieldValue(fields, "sFillColour"),
     sLineColour |-> FieldValue(fields, "sLineColour"),
     dFillOpacity |-> FieldValue(fields, "dFillOpacity"),
     dLineOpacity |-> FieldValue(fields, "dLineOpacity"),
     sReasonCategory |-> FieldValue(fields, "sReasonCategory"),
     sFoundValue |-> FieldValue(fields, "sFoundValue"),
     sCreatedBy |-> FieldValue(fields, "sCreatedBy"),
     sTimeCreated |-> FieldValue(fields, "sTimeCreated"),
     sModifiedBy |-> FieldValue(fields, "sModifiedBy"),
     sModifiedTime |-> FieldValue(fields, "sModifiedTime"),
     eSource |-> FieldValue(fields, "eSource"),
     iPageLevelID |-> FieldValue(fields, "iPageLevelID"),
     iOrder |-> FieldValue(fields, "iOrder"),
     iConfidence |-> FieldValue(fields, "iConfidence")]

\* The fields of an AnnotationData the builder sets, with their wire types.
AnnotationDataFields ==
    <<<<"aAnnots", "lst">>, <<"iPageLevelIDCount", "i32">>, <<"lPageNumber", "i64">>>>

\* AnnotationData.read: the page of the fields on the wire, or the decode
\* error of a payload the schema does not type.
read(fields) ==
    IF ~WellTyped(fields, AnnotationDataFields)
    THEN Raised("TProtocolException")
    ELSE LET annots == FieldValue(fields, "aAnnots")
         IN  IF \E k \in 1..Len(annots) : ~WellTyped(annots[k], AnnotationFields)
             THEN Raised("TProtocolException")
             ELSE Returned(
                    [aAnnots |-> [k \in 1..Len(annots) |-> read_annotation(annots[k])],
                     iPageLevelIDCount |-> FieldValue(fields, "iPageLevelIDCount"),
                     lPageNumber |-> FieldValue(fields, "lPageNumber")])

\* serialize_to_json that writes the page without its annotations.
serialize_to_json_bare(annot_data) ==
    write([annot_data EXCEPT !.aAnnots = <<>>])

\* serialize_to_json: the page written through the JSON protocol.
serialize_to_json(annot_data) == write(annot_data)

\* deserialize_from_json: an empty page filled by reading the text.
deserialize_from_json(json_str) == read(json_str)

\* json_to_annotation_data of the store: the same protocol.
json_to_annotation_data(json_str) == read(json_str)

\* The type of a detection that names none.
Unknown == <<"U", "N", "K", "N", "O", "W", "N">>

\* The annotations of the detections from position i on, each stamped with
\* the reading of the clock at its creation, or the first exception.
\* This one numbers every annotation 1.
RECURSIVE annotations_from_unnumbered(_, _, _)
annotations_from_unnumbered(pii_detections, i, stamps) ==
    IF i > Len(pii_detections)
    THEN Returned(<<>>)
    ELSE LET pii == pii_detections[i]
             annotation ==
                 create_pii_annotation(Get(pii.type, Unknown), Get(pii.value, <<>>),
                                       Get(pii.normalized_coords, PyNone),
                                       Get(pii.confidence, 0), 1, Some(1), TRUE,
                                       stamps[i])
             rest == annotations_from_unnumbered(pii_detections, i + 1, stamps)
         IN  IF annotation.raised
             THEN annotation
             ELSE IF rest.raised
             THEN rest
             ELSE Returned(<<annotation.val>> \o rest.val)

\* The loop of build_from_pii_detections from position i on (1-based, as
\* enumerate(start=1) counts): mask_value is left to its default.
RECURSIVE annotations_from(_, _, _)
annotations_from(pii_detections, i, stamps) ==
    IF i > Len(pii_detections)
    THEN Returned(<<>>)
    ELSE LET pii == pii_detections[i]
             annotation ==
                 create_pii_annotation(Get(pii.type, Unknown), Get(pii.value, <<>>),
                                       Get(pii.normalized_coords, PyNone),
                                       Get(pii.confidence, 0), i, Some(i), TRUE,
                                       stamps[i])
             rest == annotations_from(pii_detections, i + 1, stamps)
         IN  IF annotation.raised
             THEN annotation
             ELSE IF rest.raised
             THEN rest
             ELSE Returned(<<annotation.val>> \o rest.val)

\* build_from_pii_detections: the annotations, the page, its encoding.
build_from_pii_detections(pii_detections, page_number, stamps) ==
    LET annotations == annotations_from(pii_detections, 1, stamps)
    IN  IF annotations.raised
        THEN annotations
        ELSE LET annot_data == create_annotation_data(annotations.val, page_number)
                 json_str == serialize_to_json(annot_data)
             IN  Returned(<<annot_data, json_str>>)

\* Bounds of the builder's inputs: detections of a page, readings of the clock.
MaxDetections == 2
MaxTime == 2

\* Entity types as a classifier spells them, and literal values.
Ssn == <<"s", "s", "n">>
Birth == <<"d", "a", "t", "e", " ", "o", "f", " ", "b", "i", "r", "t", "h">>
Iban == <<"I", "b", "a", "n">>
EntityTypes == {Ssn, Birth, Iban}
Values == {<<"1", "2">>, <<"4", "5">>}

\* A rectangle inside the page, and a tuple short of a coordinate.
Rect == PyTuple(<<Frac(1, 4), Frac(1, 4), Frac(1, 2), Frac(1, 4)>>)
ShortRect == PyTuple(<<Frac(1, 4), Frac(1, 4), Frac(1, 2)>>)

\* Detection dictionaries: with every key, and with one key missing or
\* malformed.
Detections ==
    {[type |-> Some(t), value |-> Some(v), normalized_coords |-> Some(Rect),
      confidence |-> Some(98)] : t \in EntityTypes, v \in Values}
    \cup
    {[type |-> None, value |-> Some(<<"1", "2">>),
      normalized_coords |-> Some(Rect), confidence |-> Some(98)],
     [type |-> Some(Ssn), value |-> None,
      normalized_coords |-> Some(Rect), confidence |-> Some(98)],
     [type |-> Some(Ssn), value |-> Some(<<"1", "2">>),
      normalized_coords |-> None, confidence |-> Some(98)],
     [type |-> Some(Ssn), value |-> Some(<<"1", "2">>),
      normalized_coords |-> Some(ShortRect), confidence |-> Some(98)],
     [type |-> Some(Ssn), value |-> Some(<<"1", "2">>),
      normalized_coords |-> Some(Rect), confidence |-> None]}

PageNumbers == {0, 1}
Times == 1..MaxTime

\* The readings of a clock that never runs backwards, one per detection.
Stamps(n) == {s \in [1..n -> Times] : \A k \in 1..(n - 1) : s[k] <= s[k + 1]}

\* The pages build produces with their encodings, as a caller holds them:
\* built at the first or at the last reading of the clock.
BuiltPages ==
    LET built == UNION {{build_from_pii_detections(d, p, [k \in 1..Len(d) |-> now]) :
                            p \in PageNumbers, now \in {1, MaxTime}} :
                           d \in SeqsOf(Detections, 0, MaxDetections)}
    IN  {page.val : page \in {page \in built : ~page.raised}}

\* A call of a function of the builder is about to run. mask_value is the
\* keyword argument of that name, None when the caller does not pass it.
InitBuild ==
    /\ NoManager
    /\ NoStore
    /\ call_args \in
          {Some([fn |-> "build_from_pii_detections", pii_detections |-> d,
                 page_number |-> p, mask_value |-> m]) :
              d \in SeqsOf(Detections, 0, MaxDetections), p \in PageNumbers,
              m \in Opt(BOOLEAN)}
          \cup
          {Some([fn |-> "create_pii_annotation", pii |-> d, page_level_id |-> i,
                 order |-> o, mask_value |-> m]) :
              d \in Detections, i \in 1..MaxDetections,
              o \in Opt({MaxDetections + 1}), m \in Opt(BOOLEAN)}
          \cup
          {Some([fn |-> "deserialize_from_json", annot_data |-> b[1],
                 json_str |-> b[2]]) : b \in BuiltPages}
          \cup
          {Some([fn |-> "deserialize_from_json", annot_data |-> b[1],
                 json_str |-> Tail(b[2])]) : b \in BuiltPages}
    /\ returned = None

\* build_from_pii_detections has two parameters: a call that passes the
\* keyword mask_value raises TypeError before the body runs.
BuildFromPiiDetections ==
    /\ call_args # None
    /\ call_args[1].fn = "build_from_pii_detections"
    /\ returned = None
    /\ \E stamps \in Stamps(Len(call_args[1].pii_detections)) :
          returned' = Some(IF call_args[1].mask_value # None
                           THEN Raised("TypeError")
                           ELSE build_from_pii_detections(
                                    call_args[1].pii_detections,
                                    call_args[1].page_number, stamps))
    /\ UNCHANGED <<storeVars, config_file, manager, call_args>>

\* create_pii_annotation called as the builder calls it, with the keys of one
\* detection; mask_value defaults to True.
CreatePiiAnnotation ==
    /\ call_args # None
    /\ call_args[1].fn = "create_pii_annotation"
    /\ returned = None
    /\ \E timestamp \in Times :
          LET pii == call_args[1].pii
          IN  returned' = Some(create_pii_annotation(
                                   Get(pii.type, Unknown), Get(pii.value, <<>>),
                                   Get(pii.normalized_coords, PyNone),
                                   Get(pii.confidence, 0),
                                   call_args[1].page_level_id, call_args[1].order,
                                   Get(call_args[1].mask_value, TRUE), timestamp))
    /\ UNCHANGED <<storeVars, config_file, manager, call_args>>

\* deserialize_from_json on a text a caller holds.
DeserializeFromJson ==
    /\ call_args # None
    /\ call_args[1].fn = "deserialize_from_json"
    /\ returned = None
    /\ returned' = Some(deserialize_from_json(call_args[1].json_str))
    /\ UNCHANGED <<storeVars, config_file, manager, call_args>>

NextBuild ==
    \/ BuildFromPiiDetections
    \/ CreatePiiAnnotation
    \/ DeserializeFromJson

SpecBuild == InitBuild /\ [][NextBuild]_vars

(* --------------------- claims on the annotation builder ---------------- *)

\* build ran on a call that passed no keyword and returned a page.
Built ==
    /\ Ran("build_from_pii_detections")
    /\ ~returned[1].raised

\* The page a finished build returned, and its annotations.
BuiltPage == returned[1].val[1]
BuiltAnnots == BuiltPage.aAnnots

\* An annotation without the readings of the clock.
Untimed(annotation) ==
    [annotation EXCEPT !.sTimeCreated = 0, !.sModifiedTime = 0]

\* The annotation is the one create_pii_annotation makes of the detection
\* under the given page level id and masking, whatever the clock reads.
MadeFrom(annotation, pii, k, mask_value) ==
    LET made == create_pii_annotation(Get(pii.type, Unknown), Get(pii.value, <<>>),
                                      Get(pii.normalized_coords, PyNone),
                                      Get(pii.confidence, 0), k, Some(k),
                                      mask_value, 0)
    IN  /\ ~made.raised
        /\ Untimed(annotation) = made.val

\* C21: in every page build produces, the k-th annotation is made from the
\* k-th input detection and has page_level_id = order = k, so the page level
\* ids are unique and exactly 1..n, and the count field is n, the number of
\* annotations and of input detections.
C21_PageLevelIdsArePositions ==
    Built =>
        LET n == Len(call_args[1].pii_detections)
        IN  /\ Len(BuiltAnnots) = n
            /\ BuiltPage.iPageLevelIDCount = n
            /\ \A k \in 1..n :
                  /\ BuiltAnnots[k].iPageLevelID = k
                  /\ BuiltAnnots[k].iOrder = k
                  /\ MadeFrom(BuiltAnnots[k], call_args[1].pii_detections[k], k, TRUE)
            /\ {BuiltAnnots[k].iPageLevelID : k \in 1..n} = 1..n
            /\ \A j, k \in 1..n :
                  BuiltAnnots[j].iPageLevelID = BuiltAnnots[k].iPageLevelID => j = k

\* C21 witness: build made a page of two annotations from two detections of
\* different types, numbered 1 and 2 in the order of the input.
C21_Witness ==
    /\ Built
    /\ Len(call_args[1].pii_detections) = 2
    /\ call_args[1].pii_detections[1].type = Some(Birth)
    /\ call_args[1].pii_detections[2].type = Some(Ssn)
    /\ BuiltPage.iPageLevelIDCount = 2
    /\ BuiltAnnots[1].iPageLevelID = 1
    /\ BuiltAnnots[1].sReasonCategory = <<"D", "O", "B">>
    /\ BuiltAnnots[2].iPageLevelID = 2
    /\ BuiltAnnots[2].sReasonCategory = <<"S", "S", "N">>

\* A page without the readings of the clock.
UntimedPage(page) ==
    [page EXCEPT !.aAnnots = [k \in 1..Len(page.aAnnots) |-> Untimed(page.aAnnots[k])]]

\* The detections with their literal values replaced by the given ones.
WithValues(pii_detections, values) ==
    [k \in 1..Len(pii_detections) |-> [pii_detections[k] EXCEPT !.value = values[k]]]

\* C22: with default masking every annotation of a page build produces has
\* found_value "***T***", T the normalized entity type of its detection, and
\* build on the same input with any other literal values produces the same
\* page, the timestamps apart, and at the same readings of the clock the
\* same page and the same encoding.
C22_LiteralValueNeverInPayload ==
    Built =>
        LET dets == call_args[1].pii_detections
            n == Len(dets)
            stamps == [k \in 1..n |-> BuiltAnnots[k].sTimeCreated]
        IN  /\ \A k \in 1..n :
                  BuiltAnnots[k].sFoundValue
                    = masked(normalize_entity_type(Get(dets[k].type, Unknown)))
            /\ \A values \in [1..n -> Opt(Values)] :
                  LET other == build_from_pii_detections(
                                   WithValues(dets, values),
                                   call_args[1].page_number, stamps)
                  IN  /\ ~other.raised
                      /\ UntimedPage(other.val[1]) = UntimedPage(BuiltPage)
                      /\ other.val = returned[1].val

\* C22 witness: build made a page from a detection of type "ssn" with the
\* literal value "12", and the annotation's found_value is "***SSN***".
C22_Witness ==
    /\ Built
    /\ Len(call_args[1].pii_detections) = 1
    /\ call_args[1].pii_detections[1].type = Some(Ssn)
    /\ call_args[1].pii_detections[1].value = Some(<<"1", "2">>)
    /\ BuiltAnnots[1].sFoundValue = <<"*", "*", "*", "S", "S", "N", "*", "*", "*">>

\* The literal value of a detection, "" when it has none.
Literal(pii) == Get(pii.value, <<>>)

\* C23: found_value follows the caller's masking flag, for build as for the
\* single-annotation constructor: a call that disables masking returns
\* annotations holding the literal values, a call that leaves the flag at its
\* default or sets it returns masked values.
C23_FoundValueFollowsFlag ==
    /\ Ran("create_pii_annotation") /\ ~returned[1].raised =>
          returned[1].val.sFoundValue
            = IF call_args[1].mask_value = Some(FALSE)
              THEN Literal(call_args[1].pii)
              ELSE masked(normalize_entity_type(Get(call_args[1].pii.type, Unknown)))
    /\ Ran("build_from_pii_detections") =>
          LET dets == call_args[1].pii_detections
          IN  (\A k \in 1..Len(dets) :
                  /\ dets[k].normalized_coords # None
                  /\ Len(dets[k].normalized_coords[1].items) = 4) =>
                  /\ ~returned[1].raised
                  /\ \A k \in 1..Len(dets) :
                        BuiltAnnots[k].sFoundValue
                          = IF call_args[1].mask_value = Some(FALSE)
                            THEN Literal(dets[k])
                            ELSE masked(normalize_entity_type(
                                            Get(dets[k].type, Unknown)))

\* An annotation has the fixed appearance of a redaction mark.
OpaqueBlackRedaction(annotation) ==
    /\ annotation.eType = "annotRedaction"
    /\ annotation.sFillColour = "#000000"
    /\ annotation.sLineColour = "#000000"
    /\ annotation.dFillOpacity = One
    /\ annotation.dLineOpacity = One
    /\ annotation.eSource = "massActionCreated"

\* C24: every annotation the constructor returns and every annotation of a
\* page build returns is a redaction, filled and outlined in black at
\* opacity 1.0, with the source tag of batch creation, whatever the input.
C24_OpaqueBlackRedactions ==
    /\ Ran("create_pii_annotation") /\ ~returned[1].raised =>
          OpaqueBlackRedaction(returned[1].val)
    /\ Built => \A k \in 1..Len(BuiltAnnots) : OpaqueBlackRedaction(BuiltAnnots[k])

\* C24 witness: an annotation was made, unmasked, of a detection with
\* confidence 98 and an entity type outside the map, and is fully opaque.
C24_Witness ==
    /\ Ran("create_pii_annotation")
    /\ ~returned[1].raised
    /\ call_args[1].mask_value = Some(FALSE)
    /\ call_args[1].pii.type = Some(Iban)
    /\ returned[1].val.iConfidence = 98
    /\ returned[1].val.sReasonCategory = <<"I", "B", "A", "N">>
    /\ returned[1].val.dFillOpacity = Frac(1, 1)

\* A caller decoded the encoding of a page build produced.
RoundTripped ==
    /\ Ran("deserialize_from_json")
    /\ call_args[1].json_str = serialize_to_json(call_args[1].annot_data)

C25_EmptyPageWitness ==
    /\ RoundTripped
    /\ call_args[1].annot_data.aAnnots = <<>>
    /\ ~returned[1].raised
    /\ returned[1].val.iPageLevelIDCount = 0

(* ------------------ claim on the aligner's normalization --------------- *)

\* The normalization as the claim describes it: whitespace collapsed and
\* trimmed, lowered unless match_case, the punctuation removed from the end.
EndStripped(text, match_case) ==
    LET trimmed == strip(collapse_whitespace(text), Whitespace)
        cased == IF ~match_case THEN str_lower(trimmed) ELSE trimmed
    IN  rstrip(cased, Punctuation)

\* The texts a call of find_target_bboxes normalizes: the target and the
\* windows of consecutive tokens.
NormalizedTexts ==
    {call_args[1].target}
    \cup {WindowText(AlignTokens, i, j) : i, j \in 1..Len(AlignTokens)}

\* C29: the normalization of the target and of every token window is the
\* text with whitespace runs collapsed, trimmed, lowered unless match_case,
\* and with the characters , . : ; - removed from its end only; it keeps
\* leading occurrences of those characters and neither starts nor ends with
\* whitespace.
C29_PunctuationStrippedAtEndOnly ==
    Aligned =>
        \A text \in NormalizedTexts :
            LET normalized == normalize(text, call_args[1].match_case)
            IN  /\ normalized = EndStripped(text, call_args[1].match_case)
                /\ normalized # <<>> =>
                      /\ normalized[1] \notin Whitespace
                      /\ normalized[Len(normalized)] \notin Whitespace

(* ------------------------ pipeline orchestrator ------------------------ *)

\* The items of the classifier's dictionary flattened in the order of the
\* two loops of process_image: every entity with the name of its list.
RECURSIVE entity_items(_)
entity_items(classified_entities) ==
    IF classified_entities = <<>>
    THEN <<>>
    ELSE LET entity_name == classified_entities[1][1]
             entities == classified_entities[1][2]
         IN  [k \in 1..Len(entities) |->
                 [entity_name |-> entity_name, entity |-> entities[k]]]
             \o entity_items(Tail(classified_entities))

\* The detection process_image appends for an entity matched at bbox_pixels.
detection(entity_name, entity, entity_value, bbox_pixels, normalized_coords) ==
    [type |-> Some(entity_name),
     value |-> Some(entity_value),
     bbox_pixels |-> Some(bbox_pixels),
     normalized_coords |-> Some(PyTuple(normalized_coords)),
     confidence |-> Some(Get(entity.confidence_score, 50))]

\* The loop of process_image that appends a detection whether or not its
\* rectangle validates.
RECURSIVE detections_unvalidated(_, _, _, _, _)
detections_unvalidated(items, i, ocr_dict, page_width, page_height) ==
    IF i > Len(items)
    THEN Returned(<<>>)
    ELSE LET entity_value == Get(items[i].entity.entity_value, <<>>)
             rest == detections_unvalidated(items, i + 1, ocr_dict, page_width,
                                            page_height)
             bbox_pixels == find_target_bboxes(entity_value, ocr_dict, FALSE, FALSE)
         IN  IF entity_value = <<>>
             THEN rest
             ELSE IF bbox_pixels.raised
             THEN bbox_pixels
             ELSE IF bbox_pixels.val = PyNone \/ bbox_pixels.val.items = <<>>
             THEN rest
             ELSE LET normalized_coords ==
                          pixel_bbox_to_normalized(bbox_pixels.val.items,
                                                   page_width, page_height)
                  IN  IF normalized_coords.raised
                      THEN normalized_coords
                      ELSE IF rest.raised
                      THEN rest
                      ELSE Returned(<<detection(items[i].entity_name, items[i].entity,
                                                entity_value, bbox_pixels.val.items,
                                                normalized_coords.val)>>
                                    \o rest.val)

\* The loop of process_image over the entities from position i on: an entity
\* without a value or without a match is passed over, an exception of the
\* aligner or of the normalizer ends the loop, a rectangle that validates
\* becomes a detection.
RECURSIVE detections_from(_, _, _, _, _)
detections_from(items, i, ocr_dict, page_width, page_height) ==
    IF i > Len(items)
    THEN Returned(<<>>)
    ELSE LET entity_value == Get(items[i].entity.entity_value, <<>>)
             rest == detections_from(items, i + 1, ocr_dict, page_width, page_height)
             bbox_pixels == find_target_bboxes(entity_value, ocr_dict, FALSE, FALSE)
         IN  IF entity_value = <<>>
             THEN rest
             ELSE IF bbox_pixels.raised
             THEN bbox_pixels
             ELSE IF bbox_pixels.val = PyNone \/ bbox_pixels.val.items = <<>>
             THEN rest
             ELSE LET normalized_coords ==
                          pixel_bbox_to_normalized(bbox_pixels.val.items,
                                                   page_width, page_height)
                  IN  IF normalized_coords.raised
                      THEN normalized_coords
                      ELSE IF rest.raised
                      THEN rest
                      ELSE IF validate_normalized_coords(
                                  normalized_coords.val[1], normalized_coords.val[2],
                                  normalized_coords.val[3], normalized_coords.val[4])
                      THEN Returned(<<detection(items[i].entity_name, items[i].entity,
                                                entity_value, bbox_pixels.val.items,
                                                normalized_coords.val)>>
                                    \o rest.val)
                      ELSE rest

\* process_image: ocr_dict is what ocr_image returned for the image and
\* classified_entities what the classifier returned for its text.
process_image(ocr_dict, classified_entities, page_width, page_height) ==
    LET pii_detections == detections_from(entity_items(classified_entities), 1,
                                          ocr_dict, page_width, page_height)
    IN  IF pii_detections.raised
        THEN pii_detections
        ELSE Returned(<<ocr_dict, classified_entities, pii_detections.val>>)

\* The attribute db_manager of a DocumentProcessor: __init__ leaves it unset,
\* the assignment being commented out, so reading it raises AttributeError.
db_manager == None

\* str(page_num) for the page numbers of a short document.
str(number) == <<"0", "1", "2", "3", "4", "5", "6", "7", "8", "9">>[number + 1]

\* The redaction field and the set of machine-made annotations.
RedactionField == 382
GeneratedSet == -1

\* The arguments of the insert process_document makes for a page.
insert_args(annot_data, object_id, document_filename, document_hash, page_num) ==
    [NoArgs EXCEPT !.annot_data = Some(annot_data),
                   !.object_id = Some(object_id),
                   !.field_id = Some(RedactionField),
                   !.set_id = Some(GeneratedSet),
                   !.lookup_info1 = Some(<<document_filename, ":", document_hash>>),
                   !.lookup_info2 = Some(str(page_num))]

\* The inner try block of the page loop: built is what
\* build_from_pii_detections returned or raised; the record is inserted
\* unless the build or the read of db_manager raises.
insert_outcome(built, page_num, object_id, document_filename, document_hash) ==
    LET aligned == <<<<"ocr_image", page_num>>, <<"entity_classifier", page_num>>,
                     <<"find_target_bboxes", page_num>>,
                     <<"build_from_pii_detections", page_num>>>>
    IN  IF built.raised \/ db_manager = None
        THEN [calls |-> aligned,
              errors |-> <<<<"Error inserting record for page", page_num>>>>,
              inserts |-> <<>>]
        ELSE [calls |-> aligned \o <<<<"insert", page_num>>>>,
              errors |-> <<>>,
              inserts |-> <<insert_args(built.val[1], object_id, document_filename,
                                        document_hash, page_num)>>]

\* The outer try block of the page loop once process_image has returned or
\* raised image: a page without detections is passed over. now is the
\* reading of the clock while the page is built.
page_outcome(image, page, page_num, object_id, document_filename, document_hash, now) ==
    LET seen == <<<<"ocr_image", page_num>>, <<"entity_classifier", page_num>>>>
    IN  IF image.raised
        THEN [calls |-> seen \o <<<<"find_target_bboxes", page_num>>>>,
              errors |-> <<<<"Error processing page", page_num>>>>,
              inserts |-> <<>>]
        ELSE IF image.val[3] = <<>>
        THEN [calls |-> IF entity_items(page.classified_entities) = <<>>
                        THEN seen
                        ELSE seen \o <<<<"find_target_bboxes", page_num>>>>,
              errors |-> <<>>, inserts |-> <<>>]
        ELSE insert_outcome(build_from_pii_detections(
                                image.val[3], page_num,
                                [k \in 1..Len(image.val[3]) |-> now]),
                            page_num, object_id, document_filename, document_hash)

\* The body of the page loop of process_document for one page: the calls it
\* makes in order, the error it logs if any, and the insert it hands to the
\* store if any.
process_page(page, page_num, object_id, document_filename, document_hash, now) ==
    page_outcome(process_image(page.ocr_dict, page.classified_entities,
                               page.size[1], page.size[2]),
                 page, page_num, object_id, document_filename, document_hash, now)

\* What the page loop has done after a page and the pages that follow it.
page_then(first, rest) ==
    [calls |-> first.calls \o rest.calls,
     errors |-> first.errors \o rest.errors,
     inserts |-> first.inserts \o rest.inserts]

\* The page loop from page i on (pages count from 0, as enumerate does).
RECURSIVE pages_from(_, _, _, _, _, _)
pages_from(pages, i, object_id, document_filename, document_hash, now) ==
    IF i > Len(pages)
    THEN [calls |-> <<>>, errors |-> <<>>, inserts |-> <<>>]
    ELSE page_then(process_page(pages[i], i - 1, object_id, document_filename,
                                document_hash, now),
                   pages_from(pages, i + 1, object_id, document_filename,
                              document_hash, now))

\* process_document: [] for a missing file; otherwise the pages in order,
\* every exception logged, and no return statement at the end. pages is what
\* convert_from_path returned, None when it raised.
process_document(exists, pages, object_id, document_filename, document_hash, now) ==
    IF ~exists
    THEN [ret |-> Returned(PyList(<<>>)), calls |-> <<>>,
          errors |-> <<<<"File not found", document_filename>>>>, inserts |-> <<>>]
    ELSE IF pages = None
    THEN [ret |-> Returned(PyNone), calls |-> <<>>,
          errors |-> <<<<"Error processing document", document_filename>>>>,
          inserts |-> <<>>]
    ELSE [ret |-> Returned(PyNone)]
         @@ pages_from(pages[1], 1, object_id, document_filename, document_hash, now)

\* The rows the inserts of a document add to the table, numbered from the
\* identity after id on.
RECURSIVE inserted_rows(_, _, _)
inserted_rows(inserts, id, utc_now) ==
    IF inserts = <<>>
    THEN {}
    ELSE {InsertedRow(id + 1, inserts[1], utc_now)}
         \cup inserted_rows(Tail(inserts), id + 1, utc_now + 1)

\* Bounds of the orchestrator's inputs: entities of a page, pages of a
\* document.
MaxEntities == 2
MaxPages == 2

\* Entity names and entities as the classifier gives them: a value found on
\* the page, one without a score, one of two words, an empty one, none.
PersonTag == <<"P", "E", "R", "S", "O", "N">>
EntityNames == {PersonTag, Ssn}
Entities ==
    {[entity_value |-> Some(John), confidence_score |-> Some(90)],
     [entity_value |-> Some(Doe), confidence_score |-> None],
     [entity_value |-> Some(John \o <<" ">> \o Doe), confidence_score |-> Some(90)],
     [entity_value |-> Some(<<>>), confidence_score |-> Some(90)],
     [entity_value |-> None, confidence_score |-> Some(90)]}

\* The classifier's dictionary as the sequence of its items: no name, one
\* name, or two names that share at most MaxEntities entities.
ClassifierResults ==
    {<<>>}
    \cup {<<<<name, entities>>>> :
             name \in EntityNames, entities \in SeqsOf(Entities, 0, MaxEntities)}
    \cup {<<<<names[1], e[1]>>, <<names[2], e[2]>>>> :
             names \in {<<PersonTag, Ssn>>, <<Ssn, PersonTag>>},
             e \in {e \in SeqsOf(Entities, 1, MaxEntities)
                          \X SeqsOf(Entities, 1, MaxEntities) :
                       Len(e[1]) + Len(e[2]) <= MaxEntities}}

\* OCR results of a page: "John" "Doe" with boxes in order, the same with the
\* box of "John" reversed, "lives", and a page without text.
JohnDoePage ==
    [text_word |-> Some(<<<<John, Doe>>>>),
     text_word_boxes |-> Some(<<<<TokenBox(1), TokenBox(2)>>>>)]
TurnedPage ==
    [text_word |-> Some(<<<<John, Doe>>>>),
     text_word_boxes |-> Some(<<<<Reversed(TokenBox(1)), TokenBox(2)>>>>)]
LivesPage ==
    [text_word |-> Some(<<<<Lives>>>>),
     text_word_boxes |-> Some(<<<<TokenBox(1)>>>>)]
BlankPage == [text_word |-> Some(<<>>), text_word_boxes |-> Some(<<>>)]
OcrPages == {JohnDoePage, TurnedPage, LivesPage, BlankPage}

\* Page sizes in pixels: one that holds both tokens, one narrower than the
\* second token, and sizes without width or height.
ImageSizes == {<<30, 30>>, <<19, 30>>, <<0, 30>>, <<30, 0>>}

\* The pages of a rendered document: their sizes are positive.
RenderedPages ==
    {[size |-> size, ocr_dict |-> ocr_dict, classified_entities |-> classified] :
        size \in {<<30, 30>>, <<19, 30>>},
        ocr_dict \in {JohnDoePage, LivesPage},
        classified \in {<<>>, <<<<PersonTag, <<[entity_value |-> Some(John),
                                               confidence_score |-> Some(90)]>>>>>>,
                        <<<<Ssn, <<[entity_value |-> Some(Doe),
                                    confidence_score |-> None]>>>>>>}}

ObjectId == 1001

\* A call of process_image or of process_document is about to run, on a
\* store that holds no record. pages is None when the document does not
\* convert to images.
InitPipeline ==
    /\ NoManager
    /\ NoStore
    /\ call_args \in
          {Some([fn |-> "process_image", ocr_dict |-> ocr_dict,
                 classified_entities |-> classified, page_width |-> size[1],
                 page_height |-> size[2]]) :
              ocr_dict \in OcrPages, classified \in ClassifierResults,
              size \in ImageSizes}
          \cup
          {Some([fn |-> "process_document", exists |-> exists, pages |-> pages,
                 object_id |-> ObjectId, document_filename |-> "scan.pdf",
                 document_hash |-> "d41d8c"]) :
              exists \in BOOLEAN, pages \in Opt(SeqsOf(RenderedPages, 0, MaxPages))}
    /\ returned = None

ProcessImage ==
    /\ call_args # None
    /\ call_args[1].fn = "process_image"
    /\ returned = None
    /\ returned' = Some(process_image(call_args[1].ocr_dict,
                                      call_args[1].classified_entities,
                                      call_args[1].page_width,
                                      call_args[1].page_height))
    /\ UNCHANGED <<storeVars, config_file, manager, call_args>>

\* process_document runs to its end: the rows of its inserts are in the
\* table, and what it returned, called and logged is kept.
ProcessDocument ==
    /\ call_args # None
    /\ call_args[1].fn = "process_document"
    /\ returned = None
    /\ \E now \in Times :
          \E done \in {process_document(call_args[1].exists, call_args[1].pages,
                                        call_args[1].object_id,
                                        call_args[1].document_filename,
                                        call_args[1].document_hash, now)} :
              /\ returned' = Some([raised |-> done.ret.raised, val |-> done.ret.val,
                                   calls |-> done.calls, errors |-> done.errors])
              /\ rows' = rows \cup inserted_rows(done.inserts, identity, clock)
              /\ identity' = identity + Len(done.inserts)
              /\ clock' = clock + Len(done.inserts)
    /\ UNCHANGED <<history, history_table_name, pc, frame, conns, ret, pre, calls,
                   config_file, manager, call_args>>

NextPipeline ==
    \/ ProcessImage
    \/ ProcessDocument

SpecPipeline == InitPipeline /\ [][NextPipeline]_vars

(* --------------------- claims on the orchestrator ---------------------- *)

\* The box the aligner finds for a value on a page, <<>> when it finds none.
MatchOf(entity_value, ocr_dict) ==
    LET found == find_target_bboxes(entity_value, ocr_dict, FALSE, FALSE)
    IN  IF found.raised \/ found.val = PyNone THEN <<>> ELSE found.val.items

\* The box normalizes on the page to a rectangle that passes validate.
ValidOnPage(box, page_width, page_height) ==
    LET normalized == pixel_bbox_to_normalized(box, page_width, page_height)
    IN  /\ ~normalized.raised
        /\ validate_normalized_coords(normalized.val[1], normalized.val[2],
                                      normalized.val[3], normalized.val[4])

\* The entity has a value, a match on the page, and a valid rectangle.
Qualifies(item, ocr_dict, page_width, page_height) ==
    LET entity_value == Get(item.entity.entity_value, <<>>)
    IN  /\ entity_value # <<>>
        /\ MatchOf(entity_value, ocr_dict) # <<>>
        /\ ValidOnPage(MatchOf(entity_value, ocr_dict), page_width, page_height)

\* The detections of the entities that qualify, in the classifier's order.
Qualifying(items, ocr_dict, page_width, page_height) ==
    LET Test(item) == Qualifies(item, ocr_dict, page_width, page_height)
        kept == SelectSeq(items, Test)
    IN  [k \in 1..Len(kept) |->
            LET entity_value == kept[k].entity.entity_value[1]
                box == MatchOf(entity_value, ocr_dict)
            IN  detection(kept[k].entity_name, kept[k].entity, entity_value, box,
                          pixel_bbox_to_normalized(box, page_width, page_height).val)]

\* The rectangle of a detection lies in the unit square and has an area.
RectInPage(pii) ==
    LET rect == pii.normalized_coords[1].items
    IN  /\ \A k \in 1..4 : InUnit(rect[k])
        /\ LessEq(Plus(rect[1], rect[3]), One)
        /\ LessEq(Plus(rect[2], rect[4]), One)
        /\ Less(Zero, rect[3])
        /\ Less(Zero, rect[4])

\* process_image returned the detections of exactly the qualifying entities.
ReturnedQualifying ==
    LET a == call_args[1]
    IN  /\ ~returned[1].raised
        /\ returned[1].val[3]
             = Qualifying(entity_items(a.classified_entities), a.ocr_dict,
                          a.page_width, a.page_height)
        /\ \A k \in 1..Len(returned[1].val[3]) : RectInPage(returned[1].val[3][k])

\* C30 as claimed: process_image never aborts the page and returns, in
\* classifier order, exactly the detections with a non-empty value, a match
\* and a rectangle that passes validate, each inside the unit square with
\* positive width and height.
C30_ExactlyTheValidDetections ==
    Ran("process_image") => ReturnedQualifying

\* Some entity of the call has a value and a match on the page.
SomeMatch ==
    \E k \in 1..Len(entity_items(call_args[1].classified_entities)) :
        LET entity_value ==
                Get(entity_items(call_args[1].classified_entities)[k]
                        .entity.entity_value, <<>>)
        IN  entity_value # <<>> /\ MatchOf(entity_value, call_args[1].ocr_dict) # <<>>

\* C30 amended: on a page of positive width and height process_image
\* returns exactly those detections; on a page without width or height it
\* raises the normalizer's ValueError at the first entity that has a match,
\* and returns no detection when none has.
C30_ExactlyTheValidDetectionsOnSizedPages ==
    Ran("process_image") =>
        IF call_args[1].page_width > 0 /\ call_args[1].page_height > 0
        THEN ReturnedQualifying
        ELSE IF SomeMatch
        THEN returned[1] = Raised("ValueError")
        ELSE ReturnedQualifying /\ returned[1].val[3] = <<>>

\* C30 witness: of two entities on a page 19 pixels wide, "Doe" matches
\* outside the page and "John", whose box has its corners reversed, inside
\* it; only the detection of "John" was returned.
C30_Witness ==
    /\ Ran("process_image")
    /\ call_args[1].page_width = 19
    /\ call_args[1].ocr_dict = TurnedPage
    /\ Len(entity_items(call_args[1].classified_entities)) = 2
    /\ entity_items(call_args[1].classified_entities)[1].entity.entity_value = Some(Doe)
    /\ entity_items(call_args[1].classified_entities)[2].entity.entity_value = Some(John)
    /\ ~returned[1].raised
    /\ Len(returned[1].val[3]) = 1
    /\ returned[1].val[3][1].value = Some(John)
    /\ returned[1].val[3][1].bbox_pixels = Some(Reversed(TokenBox(1)))
    /\ RectInPage(returned[1].val[3][1])

\* The order of the calls process_document makes for one page.
PageCallOrder ==
    <<"ocr_image", "entity_classifier", "find_target_bboxes",
      "build_from_pii_detections", "insert">>

\* The position of a call in that order.
CallRank(name) == CHOOSE k \in 1..Len(PageCallOrder) : PageCallOrder[k] = name

\* The calls are made page after page in ascending order and, for a page,
\* in the order OCR, classification, alignment, build, persistence, with at
\* most one persistence call.
CallsInOrder(made) ==
    \A j, k \in 1..Len(made) :
        j < k =>
            \/ made[j][2] < made[k][2]
            \/ made[j][2] = made[k][2] /\ CallRank(made[j][1]) < CallRank(made[k][1])

\* The pages of the document on which process_image finds a detection.
PagesWithDetections ==
    {n \in 1..Len(call_args[1].pages[1]) :
        LET page == call_args[1].pages[1][n]
            image == process_image(page.ocr_dict, page.classified_entities,
                                   page.size[1], page.size[2])
        IN  ~image.raised /\ image.val[3] # <<>>}

\* C26: process_document handles the pages of a readable document in
\* ascending order, each by OCR, classification, alignment and then one
\* persistence call, and when it has completed the store holds, for every
\* page with at least one valid detection, a record with lookup_info2 the
\* page number and lookup_info1 filename:hash.
C26_EveryPageWithDetectionsPersisted ==
    (/\ Ran("process_document")
     /\ call_args[1].exists
     /\ call_args[1].pages # None) =>
        /\ CallsInOrder(returned[1].calls)
        /\ \A n \in PagesWithDetections :
              /\ \E k \in 1..Len(returned[1].calls) :
                    returned[1].calls[k] = <<"insert", n - 1>>
              /\ \E r \in rows :
                    /\ r.lookup_info2 = str(n - 1)
                    /\ r.lookup_info1 = <<call_args[1].document_filename, ":",
                                          call_args[1].document_hash>>

(* ------------------ callers that share a stored record ----------------- *)

\* The arguments of the insert that wrote the record both callers address.
EarlierInsert ==
    [NoArgs EXCEPT !.annot_data = Some("pageA"), !.object_id = Some(1),
                   !.field_id = Some(1), !.set_id = Some(1),
                   !.lookup_info1 = Some("doc"), !.lookup_info2 = Some("0")]

\* The store after that insert has returned: its row, and the history row
\* copied from it if a history table is configured; two callers are idle.
InitShared ==
    /\ Constructed
    /\ NoCall
    /\ history_table_name \in Opt({"AnnotationHistory"})
    /\ rows = {InsertedRow(1, EarlierInsert, 1)}
    /\ identity = 1
    /\ history = IF history_table_name = None
                 THEN <<>>
                 ELSE <<HistoryRow(InsertedRow(1, EarlierInsert, 1), 2)>>
    /\ clock = 3
    /\ pc = [p \in Procs |-> "idle"]
    /\ frame = [p \in Procs |-> NoFrame]
    /\ conns = [p \in Procs |-> 0]
    /\ ret = [p \in Procs |-> NoRet]
    /\ pre = [p \in Procs |-> [rows |-> {}, history |-> <<>>]]
    /\ calls = 0

\* Two callers whose upsert, delete and delete_by_filters calls interleave at
\* the boundaries of their with-blocks, against a datastore that does not
\* fail.
NextShared ==
    /\ \E p \in Procs :
          \/ Ready(p) /\ CallUpsert(p)
          \/ Ready(p) /\ CallDelete(p)
          \/ Ready(p) /\ CallDeleteByFilters(p)
          \/ StepOk(p)
          \/ DeleteExecute(p)
          \/ DeleteByFiltersExecute(p)
    /\ UNCHANGED <<config_file, manager, call_args, returned>>

SpecShared == InitShared /\ [][NextShared]_vars

(* ------------------- claims on callers that interleave ----------------- *)

\* Caller p has returned from an upsert that updated a record and had the
\* updated record copied to the history table.
UpdatedWithHistory(p) ==
    /\ pc[p] = "idle"
    /\ frame[p].op = "upsert"
    /\ ~ret[p].raised
    /\ ret[p].val # None
    /\ ~ret[p].val[2]
    /\ frame[p].rows_affected > 0
    /\ frame[p].source_record # None
    /\ ~frame[p].warned

\* The payload column an upsert of caller p writes.
WrittenBy(p) == annotation_data_to_json(frame[p].args.annot_data[1])

\* C27: the History Record appended on behalf of an update carries the
\* payload that update wrote, in every interleaving of two calls on the same
\* record; when both calls have returned the history holds an entry for each
\* of the payloads written.
C27_HistoryCarriesOwnPayload ==
    \A p \in Procs :
        UpdatedWithHistory(p) =>
            /\ frame[p].source_record[1].Annot_data = WrittenBy(p)
            /\ \E k \in 1..Len(history) : history[k].ANNOT_DATA = WrittenBy(p)

\* Caller p takes the step in which upsert writes: the UPDATE of the record
\* its query found, or the INSERT of a new one.
UpsertWrites(p) ==
    /\ frame[p].op = "upsert"
    /\ pc[p] \in {"update_execute", "insert_execute"}
    /\ pc'[p] # pc[p]

\* After the step a record with the id upsert returns exists under the key
\* of the call and holds the payload of the call.
WriteStepLanded(p) ==
    \E r \in rows' :
        /\ r.ID = IF pc[p] = "insert_execute" THEN identity' ELSE frame[p].record_id
        /\ KeyOf(r) = <<frame[p].args.object_id[1], frame[p].args.field_id[1],
                        frame[p].args.set_id[1], frame[p].args.lookup_info1[1],
                        frame[p].args.lookup_info2[1]>>
        /\ r.Annot_data = WrittenBy(p)

\* C28: no call raises here, so every upsert returns (id, was_inserted); at
\* the moment its write step finishes, a current record with that id exists
\* for its key and holds its payload, whatever a concurrent delete or
\* delete_by_filters does.
C28_UpsertWriteLands ==
    [][\A p \in Procs : UpsertWrites(p) => WriteStepLanded(p)]_vars

====
